---- MODULE Spec2Model ----
(***************************************************************************)
(* Verification model of the document pipeline core:                       *)
(*   - FileStorageService / FileIngestionService / BedrockProvider running *)
(*     as coroutines on one cooperative scheduler (asyncio event loop);    *)
(*   - LLMManager.get_provider (provider cache) called from threads;       *)
(*   - LLMManager.process_with_llm (prompt construction and delegation).   *)
(***************************************************************************)
EXTENDS Integers, Sequences, FiniteSets, TLC

None == "None"

\* Bounds of the model
MaxFiles == 3
MaxOtherSteps == 2

Min(a, b) == IF a <= b THEN a ELSE b

(***************************************************************************)
(* Part 1.  Storage, ingestion and the Bedrock provider on the event loop. *)
(*                                                                         *)
(* One "main" request runs one operation; one "other" request is ready on  *)
(* the same loop and steps whenever the loop thread is free.               *)
(***************************************************************************)
VARIABLES
    op,          \* the main request's call: operation and arguments
    settings,    \* get_settings(): which credentials are configured
    exists,      \* os.path.exists of each path of the call
    pc,          \* where the main coroutine is
    cur,         \* index of the item the batch loop is at
    item,        \* per item: state of its I/O operation and its error
    saved_paths, \* save_multiple_files' saved_paths list
    outcome,     \* how the main call ended: returned value or raised error
    loopOwner,   \* request whose synchronous call occupies the loop thread
    worker,      \* the executor job of BedrockProvider.generate_response
    otherSteps,  \* steps the other request has taken
    otherDuring, \* history: main's pc values at which the other request stepped
    gatherExc,   \* first exception raised by a child of asyncio.gather
    ioAtFail     \* history: items whose open / read was issued when the call raised

schedVars == <<op, settings, exists, pc, cur, item, saved_paths, outcome,
               loopOwner, worker, otherSteps, otherDuring, gatherExc, ioAtFail>>

\* Part 2 (LLMManager.get_provider called from threads)
VARIABLES
    gwSettings,  \* LLMManager.settings
    providers,   \* LLMManager._providers: the provider cache
    nextId,      \* identity of the next provider object constructed
    constructed, \* history: per name, how many providers were constructed
    firstStored, \* history: per name, the first provider stored in the cache
    th,          \* per thread: where its get_provider call is, and how its last ended
    calls        \* number of get_provider calls started

gatewayVars == <<gwSettings, providers, nextId, constructed, firstStored, th, calls>>

\* Part 3 (prompt construction)
VARIABLES
    template,    \* the prompt_template argument: <<>> is None, <<t>> the string t
    content,     \* the content argument
    built        \* the prompt built, or the error raised

promptVars == <<template, content, built>>

\* Part 4 (LLMManager.process_with_llm on a stub backend)
VARIABLES
    inv,         \* the running process_with_llm call
    genCalls,    \* generate_response calls the running call has made
    invLog,      \* history: the calls that returned, with their text
    invokes      \* number of process_with_llm calls started

invokeVars == <<inv, genCalls, invLog, invokes>>

\* Part 5 (a provider's generate_response against its backend)
VARIABLES
    prv,         \* the running generate_response call: provider, position, reply, result
    effects      \* history: what the call has done outside itself, in order

providerVars == <<prv, effects>>

\* Part 6 (FileStorageService.save_file and what it does to its destination)
VARIABLES
    sink,        \* the running save_file call: arguments, position, result
    sinkLog      \* history: directory, file and SDK operations of the call, in order

sinkVars == <<sink, sinkLog>>

\* Part 7 (FileProcessingService.process_file)
VARIABLES
    proc,        \* the running process_file call: arguments, position, result
    procLog      \* history: extraction steps and decode attempts of the call, in order

processVars == <<proc, procLog>>

\* Part 8 (BedrockProvider._get_bedrock_client called from executor workers)
VARIABLES
    bedrock      \* the provider's _bedrock_client, the clients built, the workers

\* Part 9 (OutputFormatterService.format_output)
VARIABLES
    fmt          \* the running format_output call: document, format name, result

\* Part 10 (InformationExtractor)
VARIABLES
    xtr          \* the extractor being constructed or its running extract call

\* Part 11 (PromptManager's registry of templates)
VARIABLES
    reg          \* the registry, the last call on it and how it ended

earlierVars == <<schedVars, gatewayVars, promptVars, invokeVars, providerVars, sinkVars,
                 processVars>>
laterVars == <<bedrock, fmt, xtr, reg>>

vars == <<earlierVars, laterVars>>

otherThanSched == <<gatewayVars, promptVars, invokeVars, providerVars, sinkVars,
                    processVars, laterVars>>
otherThanGateway == <<schedVars, promptVars, invokeVars, providerVars, sinkVars,
                      processVars, laterVars>>
otherThanPrompt == <<schedVars, gatewayVars, invokeVars, providerVars, sinkVars,
                     processVars, laterVars>>
otherThanInvoke == <<schedVars, promptVars, th, calls, firstStored, providerVars,
                     sinkVars, processVars, laterVars>>
otherThanProvider == <<schedVars, gatewayVars, promptVars, invokeVars, sinkVars,
                       processVars, laterVars>>
otherThanSink == <<schedVars, gatewayVars, promptVars, invokeVars, providerVars,
                   processVars, laterVars>>
otherThanProcess == <<schedVars, gatewayVars, promptVars, invokeVars, providerVars,
                      sinkVars, laterVars>>
otherThanBedrock == <<earlierVars, fmt, xtr, reg>>
otherThanFormat == <<earlierVars, bedrock, xtr, reg>>
otherThanExtractor == <<earlierVars, bedrock, fmt, reg>>
otherThanRegistry == <<earlierVars, bedrock, fmt, xtr>>

\* StorageDestination / FileSource values
Destinations == {"local", "network_path", "s3", "azure"}
PathSources == {"local_path", "network_path"}

OpRec(kind, target, path, container, key, prefix, n, contents, names, paths) ==
    [kind |-> kind, target |-> target, path |-> path, container |-> container,
     key |-> key, prefix |-> prefix, n |-> n, contents |-> contents,
     names |-> names, paths |-> paths]

\* File names, file contents and path names of the items, by index.
FileNames == <<"f1", "f2", "f3", "f4", "f5", "f6">>
FileBytes == <<"b1", "b2", "b3", "b4", "b5", "b6">>

\* Optional list arguments: <<>> is None, <<l>> is the list l.
ListsUpTo(k) == {[i \in 1..m |-> i] : m \in 0..k}
OptLists(k) == {<<>>} \cup {<<l>> : l \in ListsUpTo(k)}

SaveFileOps ==
    {OpRec("save_file", d, p, None, None, None, 1, <<>>, <<>>, <<>>) :
        d \in {"local", "network_path"}, p \in {None, "dir"}}
    \cup
    {OpRec("save_file", d, None, c, k, None, 1, <<>>, <<>>, <<>>) :
        d \in {"s3", "azure"}, c \in {None, "bkt"}, k \in {None, "key"}}

SaveMultipleOps ==
    {OpRec("save_multiple_files", d, p, None, None, None, n, <<>>, <<>>, <<>>) :
        d \in {"local", "network_path"}, p \in {None, "dir"}, n \in 0..MaxFiles}
    \cup
    {OpRec("save_multiple_files", d, None, c, None, x, n, <<>>, <<>>, <<>>) :
        d \in {"s3", "azure"}, c \in {None, "bkt"}, x \in {None, "pre"}, n \in 0..MaxFiles}

IngestFileOps ==
    {OpRec("ingest_file", "upload", None, None, None, None, 0, c, m, <<>>) :
        c \in {<<>>, <<1>>}, m \in {<<>>, <<1>>}}
    \cup
    {OpRec("ingest_file", s, p, None, None, None, 1, <<>>, <<>>, <<>>) :
        s \in PathSources, p \in {None, "file"}}
    \cup
    {OpRec("ingest_file", s, None, c, k, None, 1, <<>>, <<>>, <<>>) :
        s \in {"s3", "azure"}, c \in {None, "bkt"}, k \in {None, "key"}}

IngestMultipleOps ==
    {OpRec("ingest_multiple_files", "upload", None, None, None, None, 0, c, m, <<>>) :
        c \in OptLists(2), m \in OptLists(2)}
    \cup
    {OpRec("ingest_multiple_files", s, None, None, None, None, 0, <<>>, <<>>, l) :
        s \in PathSources, l \in OptLists(MaxFiles)}
    \cup
    {OpRec("ingest_multiple_files", s, None, None, None, None, 0, <<>>, <<>>, <<>>) :
        s \in {"s3", "azure"}}

GenerateOps ==
    {OpRec("generate_response", "bedrock", None, None, None, None, 0, <<>>, <<>>, <<>>)}

Ops == SaveFileOps \cup SaveMultipleOps \cup IngestFileOps \cup IngestMultipleOps
       \cup GenerateOps

\* Number of per-item I/O operations the call has.
NItems(o) ==
    CASE o.kind \in {"save_file", "save_multiple_files"} -> o.n
      [] o.kind = "ingest_file" -> o.n
      [] o.kind = "ingest_multiple_files" /\ o.target \in PathSources /\ o.paths # <<>>
            -> Len(o.paths[1])
      [] OTHER -> 0

\* Settings: which of the credentials the configuration holds.
SettingsRec(a, s, z) ==
    [aws_access_key_id |-> a, aws_secret_access_key |-> s,
     azure_storage_connection_string |-> z]

SettingsFor(o) ==
    IF o.target \in {"s3", "bedrock"}
    THEN {SettingsRec(a, s, TRUE) : a \in BOOLEAN, s \in BOOLEAN}
    ELSE IF o.target = "azure"
    THEN {SettingsRec(TRUE, TRUE, z) : z \in BOOLEAN}
    ELSE {SettingsRec(TRUE, TRUE, TRUE)}

AwsCredentials(s) == s.aws_access_key_id /\ s.aws_secret_access_key

ExistsFor(o) ==
    IF o.kind \in {"ingest_file", "ingest_multiple_files"} /\ o.target \in PathSources
    THEN [1..NItems(o) -> BOOLEAN]
    ELSE {[i \in 1..NItems(o) |-> TRUE]}

Running == [status |-> "running", error |-> None, value |-> <<>>]
Returned(v) == [status |-> "returned", error |-> None, value |-> v]
Raised(e) == [status |-> "raised", error |-> e, value |-> <<>>]

NewItem(st) == [st |-> st, err |-> None, io |-> "none"]
NoWorker == [st |-> "none", error |-> None, text |-> None]
NoIo == [opened |-> {}, read |-> {}]

SchedInit ==
    /\ op \in Ops
    /\ settings \in SettingsFor(op)
    /\ exists \in ExistsFor(op)
    /\ pc = "start"
    /\ cur = 0
    /\ item = [i \in 1..NItems(op) |-> NewItem("pending")]
    /\ saved_paths = <<>>
    /\ outcome = Running
    /\ loopOwner = None
    /\ worker = NoWorker
    /\ otherSteps = 0
    /\ otherDuring = {}
    /\ gatherExc = None
    /\ ioAtFail = NoIo


\* The state of a part that a specification does not exercise.
SchedIdle ==
    /\ op = OpRec("none", "none", None, None, None, None, 0, <<>>, <<>>, <<>>)
    /\ settings = SettingsRec(TRUE, TRUE, TRUE)
    /\ exists = <<>>
    /\ pc = "idle"
    /\ cur = 0
    /\ item = <<>>
    /\ saved_paths = <<>>
    /\ outcome = Running
    /\ loopOwner = None
    /\ worker = NoWorker
    /\ otherSteps = MaxOtherSteps
    /\ otherDuring = {}
    /\ gatherExc = None
    /\ ioAtFail = NoIo

PromptIdle ==
    /\ template = <<>>
    /\ content = <<>>
    /\ built = [status |-> "idle", error |-> None, text |-> <<>>]

InvokeIdle ==
    /\ inv = [pc |-> "idle"]
    /\ genCalls = <<>>
    /\ invLog = {}
    /\ invokes = 0

GatewayIdle ==
    /\ gwSettings = None
    /\ providers = <<>>
    /\ nextId = 1
    /\ constructed = <<>>
    /\ firstStored = <<>>
    /\ th = <<>>
    /\ calls = 0

ProviderIdle ==
    /\ prv = [pc |-> "idle"]
    /\ effects = <<>>

SinkIdle ==
    /\ sink = [pc |-> "idle"]
    /\ sinkLog = <<>>

ProcessIdle ==
    /\ proc = [pc |-> "idle"]
    /\ procLog = <<>>

BedrockIdle == bedrock = [pc |-> "idle"]
FormatIdle == fmt = [pc |-> "idle"]
ExtractorIdle == xtr = [pc |-> "idle"]
RegistryIdle == reg = [pc |-> "idle"]

LaterIdle == BedrockIdle /\ FormatIdle /\ ExtractorIdle /\ RegistryIdle

LoopFree == loopOwner = None

(***************************************************************************)
(* FileStorageService                                                      *)
(***************************************************************************)
default_output_path == "./outputs"

ObjectKey(o, i) ==
    IF o.kind = "save_file" THEN <<o.key>>
    ELSE IF o.prefix # None THEN <<o.prefix, FileNames[i]>> ELSE <<FileNames[i]>>

\* The path or URI a successful save of item i returns.
Location(o, i) ==
    CASE o.target \in {"local", "network_path"} ->
            <<"file", IF o.path = None THEN default_output_path ELSE o.path, FileNames[i]>>
      [] o.target = "s3" -> <<"s3://", o.container>> \o ObjectKey(o, i)
      [] o.target = "azure" -> <<"https://", o.container>> \o ObjectKey(o, i)

\* save_file's required-parameter checks: None, or the error raised.
SaveFileValidation(o) ==
    CASE o.target = "local" -> None
      [] o.target = "network_path" -> IF o.path = None THEN "ValueError" ELSE None
      [] o.target \in {"s3", "azure"} ->
            IF o.container = None \/ o.key = None THEN "ValueError" ELSE None

\* Mutant of ViaSaveFile: every item of a batch goes through save_file.
ViaSaveFile_Always(o) == TRUE

\* save_multiple_files goes through save_file only for local and network_path.
ViaSaveFile(o) == o.kind = "save_file" \/ o.target \in {"local", "network_path"}

\* What the SDK call of a save can answer, and the error the sink raises for it.
SaveSdkAnswers(o) ==
    IF o.target = "s3"
    THEN IF o.container = None THEN {"ParamValidationError"}
         ELSE {"ok", "ClientError", "EndpointConnectionError"}
    ELSE IF o.container = None THEN {"ValueError"}
         ELSE {"ok", "HttpResponseError"}

SaveSdkError(o, r) ==
    IF r = "ok" THEN None
    ELSE IF o.target = "s3" THEN (IF r = "ClientError" THEN "IOError" ELSE r)
    ELSE "IOError"

\* Mutant of SaveItemEnd: the batch lets the failure of an item escape.
SaveItemEnd_AbortOnFailure(i, err) ==
    /\ item' = [item EXCEPT ![i].st = IF err = None THEN "ok" ELSE "failed",
                            ![i].err = err]
    /\ IF op.kind = "save_file" \/ err # None
       THEN /\ outcome' = IF err = None THEN Returned(<<Location(op, i)>>) ELSE Raised(err)
            /\ pc' = "done"
            /\ UNCHANGED <<saved_paths, cur>>
       ELSE /\ saved_paths' = Append(saved_paths, Location(op, i))
            /\ IF i = op.n
               THEN pc' = "done" /\ outcome' = Returned(saved_paths') /\ UNCHANGED cur
               ELSE pc' = "item_call" /\ cur' = i + 1 /\ UNCHANGED outcome

\* The caller's continuation when the save of item i ends with err (None: saved):
\* save_file returns or re-raises; save_multiple_files appends or logs, and goes on.
SaveItemEnd(i, err) ==
    /\ item' = [item EXCEPT ![i].st = IF err = None THEN "ok" ELSE "failed",
                            ![i].err = err]
    /\ IF op.kind = "save_file"
       THEN /\ outcome' = IF err = None THEN Returned(<<Location(op, i)>>) ELSE Raised(err)
            /\ pc' = "done"
            /\ UNCHANGED <<saved_paths, cur>>
       ELSE /\ saved_paths' = IF err = None THEN Append(saved_paths, Location(op, i))
                                            ELSE saved_paths
            /\ IF i = op.n
               THEN pc' = "done" /\ outcome' = Returned(saved_paths') /\ UNCHANGED cur
               ELSE pc' = "item_call" /\ cur' = i + 1 /\ UNCHANGED outcome

\* Entry of save_file / save_multiple_files.
SaveStart ==
    /\ pc = "start" /\ LoopFree
    /\ op.kind \in {"save_file", "save_multiple_files"}
    /\ IF op.n = 0
       THEN pc' = "done" /\ outcome' = Returned(<<>>) /\ UNCHANGED cur
       ELSE pc' = "item_call" /\ cur' = 1 /\ UNCHANGED outcome
    /\ UNCHANGED <<op, settings, exists, item, saved_paths, loopOwner, worker,
                   otherSteps, otherDuring, gatherExc, ioAtFail>>
    /\ UNCHANGED otherThanSched

\* The save of item cur up to its first suspension (or its blocking SDK call).
SaveItemCall ==
    /\ pc = "item_call" /\ LoopFree
    /\ LET v == IF ViaSaveFile(op) THEN SaveFileValidation(op) ELSE None IN
       \/ /\ v # None
          /\ SaveItemEnd(cur, v)
          /\ UNCHANGED loopOwner
       \/ /\ v = None /\ op.target \in {"local", "network_path"}
          /\ \E mkdir_ok \in BOOLEAN :
                IF mkdir_ok
                THEN /\ item' = [item EXCEPT ![cur].st = "writing", ![cur].io = "write"]
                     /\ pc' = "file_io"
                     /\ UNCHANGED <<saved_paths, cur, outcome>>
                ELSE SaveItemEnd(cur, IF op.target = "local" THEN "OSError" ELSE "IOError")
          /\ UNCHANGED loopOwner
       \/ /\ v = None /\ op.target = "s3" /\ ~AwsCredentials(settings)
          /\ SaveItemEnd(cur, "ValueError")
          /\ UNCHANGED loopOwner
       \/ /\ v = None /\ op.target = "azure" /\ ~settings.azure_storage_connection_string
          /\ SaveItemEnd(cur, "IOError")
          /\ UNCHANGED loopOwner
       \/ /\ v = None
          /\ \/ op.target = "s3" /\ AwsCredentials(settings)
             \/ op.target = "azure" /\ settings.azure_storage_connection_string
          /\ item' = [item EXCEPT ![cur].st = "in_sdk", ![cur].io = "sdk"]
          /\ pc' = "sdk"
          /\ loopOwner' = "main"
          /\ UNCHANGED <<saved_paths, cur, outcome>>
    /\ UNCHANGED <<op, settings, exists, worker, otherSteps, otherDuring, gatherExc,
                   ioAtFail>>
    /\ UNCHANGED otherThanSched

\* The aiofiles write of item cur completes (in its thread) and the coroutine resumes.
SaveFileIoComplete ==
    /\ pc = "file_io" /\ LoopFree
    /\ op.kind \in {"save_file", "save_multiple_files"}
    /\ \E ok \in BOOLEAN : SaveItemEnd(cur, IF ok THEN None ELSE "OSError")
    /\ UNCHANGED <<op, settings, exists, loopOwner, worker, otherSteps, otherDuring,
                   gatherExc, ioAtFail>>
    /\ UNCHANGED otherThanSched

\* put_object / upload_blob returns: the loop thread is released.
SaveSdkComplete ==
    /\ pc = "sdk" /\ loopOwner = "main"
    /\ op.kind \in {"save_file", "save_multiple_files"}
    /\ \E r \in SaveSdkAnswers(op) : SaveItemEnd(cur, SaveSdkError(op, r))
    /\ loopOwner' = None
    /\ UNCHANGED <<op, settings, exists, worker, otherSteps, otherDuring, gatherExc,
                   ioAtFail>>
    /\ UNCHANGED otherThanSched

(***************************************************************************)
(* FileIngestionService                                                    *)
(***************************************************************************)
\* zip(file_contents, file_names): pairs up to the shorter list.
Zip(cs, ms) == [i \in 1..Min(Len(cs), Len(ms)) |-> <<FileBytes[cs[i]], FileNames[ms[i]]>>]

\* What _read_from_path returns for path i: its bytes and os.path.basename.
ReadResult(i) == <<FileBytes[i], FileNames[i]>>

IngestSdkAnswers(o) ==
    IF o.target = "s3" THEN {"ok", "ClientError", "EndpointConnectionError"}
    ELSE {"ok", "ResourceNotFoundError"}

IngestSdkError(o, r) ==
    IF r = "ok" THEN None
    ELSE IF o.target = "s3" THEN (IF r = "ClientError" THEN "FileNotFoundError" ELSE r)
    ELSE "FileNotFoundError"

\* ingest_file up to its first suspension (or blocking SDK call).
IngestFileStart ==
    /\ pc = "start" /\ LoopFree
    /\ op.kind = "ingest_file"
    /\ \/ /\ op.target = "upload"
          /\ outcome' = IF op.contents = <<>> \/ op.names = <<>>
                        THEN Raised("ValueError")
                        ELSE Returned(<<FileBytes[op.contents[1]], FileNames[op.names[1]]>>)
          /\ pc' = "done"
          /\ UNCHANGED <<item, loopOwner>>
       \/ /\ op.target \in PathSources
          /\ IF op.path = None
             THEN outcome' = Raised("ValueError") /\ pc' = "done" /\ UNCHANGED item
             ELSE IF ~exists[1]
             THEN /\ outcome' = Raised("FileNotFoundError") /\ pc' = "done"
                  /\ item' = [item EXCEPT ![1].st = "failed", ![1].err = "FileNotFoundError"]
             ELSE /\ item' = [item EXCEPT ![1].st = "opening", ![1].io = "open"]
                  /\ pc' = "await_read" /\ UNCHANGED outcome
          /\ UNCHANGED loopOwner
       \/ /\ op.target \in {"s3", "azure"}
          /\ IF op.container = None \/ op.key = None
             THEN outcome' = Raised("ValueError") /\ pc' = "done" /\ UNCHANGED <<item, loopOwner>>
             ELSE IF op.target = "s3" /\ ~AwsCredentials(settings)
             THEN outcome' = Raised("ValueError") /\ pc' = "done" /\ UNCHANGED <<item, loopOwner>>
             ELSE IF op.target = "azure" /\ ~settings.azure_storage_connection_string
             THEN outcome' = Raised("FileNotFoundError") /\ pc' = "done"
                  /\ UNCHANGED <<item, loopOwner>>
             ELSE /\ item' = [item EXCEPT ![1].st = "in_sdk", ![1].io = "sdk"]
                  /\ pc' = "sdk" /\ loopOwner' = "main" /\ UNCHANGED outcome
    /\ UNCHANGED <<op, settings, exists, cur, saved_paths, worker, otherSteps,
                   otherDuring, gatherExc, ioAtFail>>
    /\ UNCHANGED otherThanSched

\* get_object / download_blob returns: the loop thread is released.
IngestSdkComplete ==
    /\ pc = "sdk" /\ loopOwner = "main"
    /\ op.kind = "ingest_file"
    /\ \E r \in IngestSdkAnswers(op) :
          LET err == IngestSdkError(op, r) IN
          /\ item' = [item EXCEPT ![1].st = IF err = None THEN "ok" ELSE "failed",
                                  ![1].err = err]
          /\ outcome' = IF err = None THEN Returned(ReadResult(1)) ELSE Raised(err)
    /\ pc' = "done"
    /\ loopOwner' = None
    /\ UNCHANGED <<op, settings, exists, cur, saved_paths, worker, otherSteps,
                   otherDuring, gatherExc, ioAtFail>>
    /\ UNCHANGED otherThanSched

\* ingest_multiple_files up to its await of asyncio.gather.
IngestMultipleStart ==
    /\ pc = "start" /\ LoopFree
    /\ op.kind = "ingest_multiple_files"
    /\ \/ /\ op.target = "upload"
          /\ outcome' = IF op.contents = <<>> \/ op.names = <<>>
                        THEN Raised("ValueError")
                        ELSE Returned(Zip(op.contents[1], op.names[1]))
          /\ pc' = "done"
          /\ UNCHANGED item
       \/ /\ op.target \in PathSources
          /\ IF op.paths = <<>>
             THEN outcome' = Raised("ValueError") /\ pc' = "done" /\ UNCHANGED item
             ELSE /\ item' = [i \in 1..NItems(op) |-> NewItem("created")]
                  /\ pc' = "await_read" /\ UNCHANGED outcome
       \/ /\ op.target \notin PathSources \cup {"upload"}
          /\ outcome' = Raised("ValueError") /\ pc' = "done"
          /\ UNCHANGED item
    /\ UNCHANGED <<op, settings, exists, cur, saved_paths, loopOwner, worker,
                   otherSteps, otherDuring, gatherExc, ioAtFail>>
    /\ UNCHANGED otherThanSched

FailItem(i, err) ==
    /\ item' = [item EXCEPT ![i].st = "failed", ![i].err = err]
    /\ gatherExc' = IF gatherExc = None THEN err ELSE gatherExc

\* First step of the task of path i: os.path.exists, then the open is issued.
ReadTaskStart(i) ==
    /\ LoopFree
    /\ item[i].st = "created"
    /\ IF exists[i]
       THEN item' = [item EXCEPT ![i].st = "opening", ![i].io = "open"]
            /\ UNCHANGED gatherExc
       ELSE FailItem(i, "FileNotFoundError")
    /\ UNCHANGED <<op, settings, exists, pc, cur, saved_paths, outcome, loopOwner,
                   worker, otherSteps, otherDuring, ioAtFail>>
    /\ UNCHANGED otherThanSched

\* The open of path i completed in its thread: the task resumes and issues the read.
\* The loop runs every task's first step before any completion callback.
ReadTaskOpened(i) ==
    /\ LoopFree
    /\ op.kind \in {"ingest_file", "ingest_multiple_files"}
    /\ item[i].st = "opening"
    /\ \A j \in DOMAIN item : item[j].st # "created"
    /\ \E ok \in BOOLEAN :
          IF ok
          THEN item' = [item EXCEPT ![i].st = "reading", ![i].io = "read"]
               /\ UNCHANGED gatherExc
          ELSE FailItem(i, "OSError")
    /\ UNCHANGED <<op, settings, exists, pc, cur, saved_paths, outcome, loopOwner,
                   worker, otherSteps, otherDuring, ioAtFail>>
    /\ UNCHANGED otherThanSched

\* The read of path i completed: the task returns (content, name).
ReadTaskDone(i) ==
    /\ LoopFree
    /\ item[i].st = "reading"
    /\ \E ok \in BOOLEAN :
          IF ok
          THEN item' = [item EXCEPT ![i].st = "ok"] /\ UNCHANGED gatherExc
          ELSE FailItem(i, "OSError")
    /\ UNCHANGED <<op, settings, exists, pc, cur, saved_paths, outcome, loopOwner,
                   worker, otherSteps, otherDuring, ioAtFail>>
    /\ UNCHANGED otherThanSched

ReadTaskStartSome == \E i \in DOMAIN item : ReadTaskStart(i)
ReadTaskOpenedSome == \E i \in DOMAIN item : ReadTaskOpened(i)
ReadTaskDoneSome == \E i \in DOMAIN item : ReadTaskDone(i)

\* What the awaited reads give the suspended caller: gather propagates the first
\* exception of a child (the other children keep running), or returns the results
\* in the order of the paths.
GatherOutcome_ReturnExceptions ==
    IF op.kind = "ingest_file" /\ gatherExc # None THEN Raised(gatherExc)
    ELSE IF op.kind = "ingest_file" THEN Returned(ReadResult(1))
    ELSE Returned([i \in 1..NItems(op) |-> ReadResult(i)])

GatherOutcome ==
    IF gatherExc # None THEN Raised(gatherExc)
    ELSE IF op.kind = "ingest_file" THEN Returned(ReadResult(1))
    ELSE Returned([i \in 1..NItems(op) |-> ReadResult(i)])

GatherReady == gatherExc # None \/ \A i \in DOMAIN item : item[i].st = "ok"

\* The caller of _read_from_path / asyncio.gather resumes.
AwaitReadResume ==
    /\ pc = "await_read" /\ LoopFree
    /\ GatherReady
    /\ outcome' = GatherOutcome
    /\ pc' = "done"
    /\ ioAtFail' = IF outcome'.status = "raised"
                   THEN [opened |-> {i \in DOMAIN item : item[i].io \in {"open", "read"}},
                         read |-> {i \in DOMAIN item : item[i].io = "read"}]
                   ELSE ioAtFail
    /\ UNCHANGED <<op, settings, exists, cur, item, saved_paths, loopOwner, worker,
                   otherSteps, otherDuring, gatherExc>>
    /\ UNCHANGED otherThanSched

(***************************************************************************)
(* BedrockProvider.generate_response                                       *)
(***************************************************************************)
\* What _invoke_bedrock ends with on its worker thread: the text, the ValueError
\* it makes of a ClientError, or another error of the SDK call.
WorkerResults ==
    {[st |-> "done", error |-> None, text |-> "text"],
     [st |-> "done", error |-> "ValueError", text |-> None],
     [st |-> "done", error |-> "KeyError", text |-> None]}

\* Mutant of BedrockSubmit: _invoke_bedrock is called on the loop thread.
BedrockSubmit_InvokeOnLoop ==
    /\ pc = "start" /\ LoopFree
    /\ op.kind = "generate_response"
    /\ IF ~AwsCredentials(settings)
       THEN outcome' = Raised("ValueError") /\ pc' = "done" /\ UNCHANGED <<worker, loopOwner>>
       ELSE /\ worker' = [NoWorker EXCEPT !.st = "running"]
            /\ loopOwner' = "main"
            /\ pc' = "worker_wait" /\ UNCHANGED outcome
    /\ UNCHANGED <<op, settings, exists, cur, item, saved_paths,
                   otherSteps, otherDuring, gatherExc, ioAtFail>>
    /\ UNCHANGED otherThanSched

\* The credentials check, then loop.run_in_executor(None, _invoke_bedrock).
BedrockSubmit ==
    /\ pc = "start" /\ LoopFree
    /\ op.kind = "generate_response"
    /\ IF ~AwsCredentials(settings)
       THEN outcome' = Raised("ValueError") /\ pc' = "done" /\ UNCHANGED worker
       ELSE /\ worker' = [NoWorker EXCEPT !.st = "submitted"]
            /\ pc' = "worker_wait" /\ UNCHANGED outcome
    /\ UNCHANGED <<op, settings, exists, cur, item, saved_paths, loopOwner,
                   otherSteps, otherDuring, gatherExc, ioAtFail>>
    /\ UNCHANGED otherThanSched

\* A pool thread picks the job up and enters client.invoke_model.
WorkerRun ==
    /\ worker.st = "submitted"
    /\ worker' = [worker EXCEPT !.st = "running"]
    /\ UNCHANGED <<op, settings, exists, pc, cur, item, saved_paths, outcome,
                   loopOwner, otherSteps, otherDuring, gatherExc, ioAtFail>>
    /\ UNCHANGED otherThanSched

WorkerFinish ==
    /\ worker.st = "running"
    /\ worker' \in WorkerResults
    /\ UNCHANGED <<op, settings, exists, pc, cur, item, saved_paths, outcome,
                   loopOwner, otherSteps, otherDuring, gatherExc, ioAtFail>>
    /\ UNCHANGED otherThanSched

\* The awaiting caller resumes with the future's result or exception.
BedrockResume ==
    /\ pc = "worker_wait" /\ LoopFree
    /\ worker.st = "done"
    /\ outcome' = IF worker.error = None THEN Returned(<<worker.text>>)
                  ELSE Raised(worker.error)
    /\ pc' = "done"
    /\ UNCHANGED <<op, settings, exists, cur, item, saved_paths, loopOwner, worker,
                   otherSteps, otherDuring, gatherExc, ioAtFail>>
    /\ UNCHANGED otherThanSched

\* The other request takes a step: only when no synchronous call holds the loop.
OtherStep ==
    /\ LoopFree
    /\ otherSteps < MaxOtherSteps
    /\ otherSteps' = otherSteps + 1
    /\ otherDuring' = otherDuring \cup {IF worker.st = "running" THEN "worker_running" ELSE pc}
    /\ UNCHANGED <<op, settings, exists, pc, cur, item, saved_paths, outcome,
                   loopOwner, worker, gatherExc, ioAtFail>>
    /\ UNCHANGED otherThanSched

SchedNext ==
    \/ SaveStart \/ SaveItemCall \/ SaveFileIoComplete \/ SaveSdkComplete
    \/ IngestFileStart \/ IngestSdkComplete \/ IngestMultipleStart
    \/ ReadTaskStartSome \/ ReadTaskOpenedSome \/ ReadTaskDoneSome
    \/ AwaitReadResume
    \/ BedrockSubmit \/ WorkerRun \/ WorkerFinish \/ BedrockResume
    \/ OtherStep

SchedSpecInit ==
    /\ SchedInit /\ GatewayIdle /\ PromptIdle /\ InvokeIdle /\ ProviderIdle
    /\ SinkIdle /\ ProcessIdle
    /\ LaterIdle

SchedSpec == SchedSpecInit /\ [][SchedNext]_vars


(***************************************************************************)
(* Claims about Part 1                                                     *)
(***************************************************************************)
OtherReady == otherSteps < MaxOtherSteps

SaveBatch == op.kind = "save_multiple_files"

\* The locations of the items whose save succeeded, in input order.
OkIndices == SelectSeq([i \in 1..NItems(op) |-> i], LAMBDA i : item[i].st = "ok")
OkLocations == [k \in 1..Len(OkIndices) |-> Location(op, OkIndices[k])]

\* C1: save_multiple_files never raises, and when it ends it has attempted every
\* item and returns exactly the locations of the items that were saved, in input
\* order.
C1_BatchSaveNeverAborts ==
    SaveBatch =>
        /\ outcome.status # "raised"
        /\ pc = "done" =>
              /\ outcome.status = "returned"
              /\ \A i \in 1..op.n : item[i].st \in {"ok", "failed"}
              /\ outcome.value = OkLocations

\* Three items, the second failing: the locations of items 1 and 3 are returned.
C1_Witness ==
    /\ SaveBatch /\ op.n = 3 /\ pc = "done"
    /\ item[1].st = "ok" /\ item[2].st = "failed" /\ item[3].st = "ok"
    /\ outcome.value = <<Location(op, 1), Location(op, 3)>>

IngestBatch ==
    op.kind = "ingest_multiple_files" /\ op.target \in PathSources \cup {"upload"}
ListAbsent ==
    IF op.target = "upload" THEN op.contents = <<>> \/ op.names = <<>>
    ELSE op.paths = <<>>
PathMissing ==
    op.target \in PathSources /\ op.paths # <<>> /\ \E i \in 1..NItems(op) : ~exists[i]
BatchInvalid == ListAbsent \/ PathMissing

\* C2 as stated: an invalid batch never returns, and at the moment it fails no
\* file read has been issued for any item.
C2_NoReadIssuedAtFailure ==
    (IngestBatch /\ BatchInvalid) =>
        /\ outcome.status # "returned"
        /\ outcome.status = "raised" => ioAtFail.read = {}

\* C2 as amended: an invalid batch never returns a result; an absent list fails the
\* call before any task exists; a missing path is never opened or read (each task
\* checks its own path before its own I/O); the opens and reads of the existing
\* paths are not held back.
C2_AllOrNothingPerItemValidation ==
    (IngestBatch /\ BatchInvalid) =>
        /\ outcome.status # "returned"
        /\ ListAbsent => (item = <<>> /\ ioAtFail = NoIo)
        /\ \A i \in DOMAIN item : item[i].io # "none" => exists[i]
        /\ outcome.status = "raised" => \A i \in ioAtFail.opened : exists[i]

\* A batch with a missing path has failed after the read of another path was issued.
C2_Witness ==
    /\ IngestBatch /\ PathMissing
    /\ outcome.status = "raised" /\ outcome.error = "FileNotFoundError"
    /\ ioAtFail.read # {}

\* C3: while a remote storage call is in progress the loop is not held, and the
\* other request, when ready, can take a step.
RemoteStorageCallInProgress == \E i \in DOMAIN item : item[i].st = "in_sdk"

C3_RemoteStorageCallsSuspend ==
    RemoteStorageCallInProgress =>
        /\ loopOwner = None
        /\ OtherReady => ENABLED OtherStep

\* C4: in a batch, once the operation of item i is in flight the operation of item
\* i+1 has been issued too (it does not wait for item i to complete).
InFlight(i) == item[i].st \in {"writing", "in_sdk", "opening", "reading"}
Issued(i) == item[i].st # "pending"

C4_BatchFansOut ==
    op.kind \in {"save_multiple_files", "ingest_multiple_files"} =>
        \A i \in 1..(NItems(op) - 1) : InFlight(i) => Issued(i + 1)

\* C5: the Bedrock invocation runs on a worker, never on the loop thread; while it
\* is pending the caller is suspended and the other request can step; the caller
\* ends only after the worker has, with exactly the worker's text or error.
C5_BedrockOffloaded ==
    op.kind = "generate_response" =>
        /\ worker.st \in {"submitted", "running"} =>
              /\ loopOwner = None
              /\ pc = "worker_wait" /\ outcome.status = "running"
              /\ OtherReady => ENABLED OtherStep
        /\ (outcome.status # "running" /\ AwsCredentials(settings)) =>
              /\ worker.st = "done"
              /\ outcome = IF worker.error = None THEN Returned(<<worker.text>>)
                           ELSE Raised(worker.error)
        /\ (outcome.status # "running" /\ ~AwsCredentials(settings)) =>
              /\ worker.st = "none"
              /\ outcome = Raised("ValueError")

\* The call returned the worker's text, and the other request stepped while the
\* worker was inside the SDK call.
C5_Witness ==
    /\ op.kind = "generate_response"
    /\ outcome = Returned(<<"text">>)
    /\ "worker_running" \in otherDuring


\* ingest_file from the object store or the blob store, its parameters given.
RemoteIngest ==
    /\ op.kind = "ingest_file" /\ op.target \in {"s3", "azure"}
    /\ op.container # None /\ op.key # None

SourceCredentialsAbsent ==
    IF op.target = "s3" THEN ~AwsCredentials(settings)
    ELSE ~settings.azure_storage_connection_string

\* C13: ingest_file from either remote kind fails with FileNotFoundError when the
\* credentials are missing and when the SDK reports the object absent or the
\* credentials rejected (every failure but one of the connection itself), so the
\* two kinds give the same error kind for the same cause.
C13_RemoteIngestOneFailurePolicy ==
    (RemoteIngest /\ outcome.status = "raised"
        /\ outcome.error # "EndpointConnectionError") =>
            outcome.error = "FileNotFoundError"

\* The pairs / reads a batch of the call's arguments is to give, in input order.
UploadPairs ==
    [i \in 1..Len(op.contents[1]) |->
        <<FileBytes[op.contents[1][i]], FileNames[op.names[1][i]]>>]

\* C14: a successful ingest_multiple_files returns one result per input in input
\* order: for uploads a pair for every content and every name, for path kinds the
\* i-th path's content and base name whatever the order the reads completed in.
C14_OneResultPerInput ==
    (op.kind = "ingest_multiple_files" /\ outcome.status = "returned") =>
        IF op.target = "upload"
        THEN /\ Len(outcome.value) = Len(op.contents[1])
             /\ Len(outcome.value) = Len(op.names[1])
             /\ outcome.value = UploadPairs
        ELSE /\ Len(outcome.value) = Len(op.paths[1])
             /\ \A i \in 1..Len(op.paths[1]) : outcome.value[i] = ReadResult(i)

RemoteBatchWithoutContainer ==
    /\ op.kind = "save_multiple_files"
    /\ op.target \in {"s3", "azure"}
    /\ op.container = None

\* C27: a save_multiple_files call to S3 or Azure without the bucket or the
\* container name never raises: no item is rejected by save_file's parameter
\* check (with the credentials configured the error of an item is the SDK's
\* or the sink's, not the check's ValueError), every item fails, and the
\* call returns the empty list.
C27_BatchSkipsParameterValidation ==
    RemoteBatchWithoutContainer =>
        /\ outcome.status # "raised"
        /\ saved_paths = <<>>
        /\ \A i \in DOMAIN item :
              /\ item[i].st # "ok"
              /\ (item[i].st = "failed" /\ op.target = "s3" /\ AwsCredentials(settings)) =>
                    item[i].err = "ParamValidationError"
              /\ (item[i].st = "failed" /\ op.target = "azure"
                    /\ settings.azure_storage_connection_string) =>
                    item[i].err = "IOError"
        /\ pc = "done" =>
              /\ outcome = Returned(<<>>)
              /\ \A i \in DOMAIN item : item[i].st = "failed"

\* Three items saved to S3 without a bucket name: all three failed in the SDK.
C27_Witness ==
    /\ RemoteBatchWithoutContainer /\ op.target = "s3" /\ op.n = 3 /\ pc = "done"
    /\ AwsCredentials(settings)
    /\ \A i \in 1..3 : item[i].st = "failed" /\ item[i].err = "ParamValidationError"
    /\ outcome = Returned(<<>>)

(***************************************************************************)
(* Part 2.  LLMManager.get_provider.  The manager is shared by the threads *)
(* that serve requests; a call is three steps a thread switch can          *)
(* separate: the cache lookup, the construction, the store.                *)
(***************************************************************************)
MaxCalls == 3

Threads == {"t1", "t2"}

\* Names are strings, modelled as tuples of characters, so that str.lower acts.
Uppers == <<"A", "B", "C", "D", "E", "F", "G", "H", "I", "J", "K", "L", "M",
            "N", "O", "P", "Q", "R", "S", "T", "U", "V", "W", "X", "Y", "Z">>
Lowers == <<"a", "b", "c", "d", "e", "f", "g", "h", "i", "j", "k", "l", "m",
            "n", "o", "p", "q", "r", "s", "t", "u", "v", "w", "x", "y", "z">>

LowerChar(c) ==
    IF \E k \in 1..26 : Uppers[k] = c
    THEN Lowers[CHOOSE k \in 1..26 : Uppers[k] = c]
    ELSE c

\* str.lower
Lower(name) == [k \in 1..Len(name) |-> LowerChar(name[k])]

OPENAI == <<"o", "p", "e", "n", "a", "i">>
ANTHROPIC == <<"a", "n", "t", "h", "r", "o", "p", "i", "c">>
OLLAMA == <<"o", "l", "l", "a", "m", "a">>
BEDROCK == <<"b", "e", "d", "r", "o", "c", "k">>
META == <<"m", "e", "t", "a">>

SupportedNames == {OPENAI, ANTHROPIC, OLLAMA, BEDROCK}

\* The names the calls are made with.
CallNames ==
    SupportedNames \cup
    {<<"O", "p", "e", "n", "A", "I">>, <<"B", "E", "D", "R", "O", "C", "K">>, META}

\* Settings as the manager reads them: every credential set, or none.
GatewaySettings ==
    {[openai_api_key |-> k, openai_base_url |-> "https://api.openai.com/v1",
      anthropic_api_key |-> k, anthropic_base_url |-> "https://api.anthropic.com",
      ollama_base_url |-> "http://localhost:11434",
      aws_access_key_id |-> k, aws_secret_access_key |-> k,
      aws_region |-> "us-east-1"] : k \in {None, "key"}}

OrDefault(v, d) == IF v = None THEN d ELSE v

ProviderRec(cls, api_key, base_url, access, secret, region, id) ==
    [cls |-> cls, api_key |-> api_key, base_url |-> base_url,
     aws_access_key_id |-> access, aws_secret_access_key |-> secret,
     aws_region |-> region, id |-> id]

NoProvider == ProviderRec(None, None, None, None, None, None, 0)

\* The constructor call get_provider makes for a supported name.
NewProvider(name, s, id) ==
    CASE name = OPENAI ->
            ProviderRec("OpenAIProvider", s.openai_api_key,
                        OrDefault(s.openai_base_url, "https://api.openai.com/v1"),
                        None, None, None, id)
      [] name = ANTHROPIC ->
            ProviderRec("AnthropicProvider", s.anthropic_api_key,
                        OrDefault(s.anthropic_base_url, "https://api.anthropic.com/v1"),
                        None, None, None, id)
      [] name = OLLAMA ->
            ProviderRec("OllamaProvider", None,
                        OrDefault(s.ollama_base_url, "http://localhost:11434"),
                        None, None, None, id)
      [] name = BEDROCK ->
            ProviderRec("BedrockProvider", None, None, s.aws_access_key_id,
                        s.aws_secret_access_key, OrDefault(s.aws_region, "us-east-1"), id)

\* d[k] = v on a dict
Put(d, k, v) == [x \in DOMAIN d \cup {k} |-> IF x = k THEN v ELSE d[x]]

NoRet == [status |-> "none", error |-> None, provider |-> NoProvider, cached |-> FALSE]
IdleThread ==
    [pc |-> "idle", arg |-> <<>>, name |-> <<>>, provider |-> NoProvider,
     ret |-> NoRet, wrote |-> FALSE]

GatewayInit ==
    /\ gwSettings \in GatewaySettings
    /\ providers = <<>>
    /\ nextId = 1
    /\ constructed = [n \in SupportedNames |-> 0]
    /\ firstStored = <<>>
    /\ th = [t \in Threads |-> IdleThread]
    /\ calls = 0

\* get_provider(n) is entered: provider_name = provider_name.lower()
GpCall(t, n) ==
    /\ th[t].pc = "idle"
    /\ calls < MaxCalls
    /\ calls' = calls + 1
    /\ th' = [th EXCEPT ![t] = [IdleThread EXCEPT !.pc = "check", !.arg = n,
                                                  !.name = Lower(n)]]
    /\ UNCHANGED <<gwSettings, providers, nextId, constructed, firstStored>>
    /\ UNCHANGED otherThanGateway

\* Mutant of GpCheck: the cache lookup always misses.
GpCheck_AlwaysMiss(t) ==
    /\ th[t].pc = "check"
    /\ th' = [th EXCEPT ![t].pc = "construct"]
    /\ UNCHANGED <<gwSettings, providers, nextId, constructed, firstStored, calls>>
    /\ UNCHANGED otherThanGateway

\* if provider_name in self._providers: return self._providers[provider_name]
GpCheck(t) ==
    /\ th[t].pc = "check"
    /\ IF th[t].name \in DOMAIN providers
       THEN th' = [th EXCEPT ![t].pc = "idle",
                             ![t].ret = [status |-> "returned", error |-> None,
                                         provider |-> providers[th[t].name],
                                         cached |-> TRUE]]
       ELSE th' = [th EXCEPT ![t].pc = "construct"]
    /\ UNCHANGED <<gwSettings, providers, nextId, constructed, firstStored, calls>>
    /\ UNCHANGED otherThanGateway

\* Mutant of GpConstruct: the rejected name is entered in the cache.
GpConstruct_CachesRejected(t) ==
    /\ th[t].pc = "construct"
    /\ IF th[t].name \in SupportedNames
       THEN /\ th' = [th EXCEPT ![t].pc = "store",
                                ![t].provider = NewProvider(th[t].name, gwSettings, nextId)]
            /\ nextId' = nextId + 1
            /\ constructed' = [constructed EXCEPT ![th[t].name] = @ + 1]
            /\ UNCHANGED providers
       ELSE /\ th' = [th EXCEPT ![t].pc = "idle",
                                ![t].ret = [NoRet EXCEPT !.status = "raised",
                                                         !.error = "ValueError"]]
            /\ providers' = Put(providers, th[t].name, NoProvider)
            /\ UNCHANGED <<nextId, constructed>>
    /\ UNCHANGED <<gwSettings, firstStored, calls>>
    /\ UNCHANGED otherThanGateway

\* The if / elif chain on provider_name: a constructor call, or ValueError.
GpConstruct(t) ==
    /\ th[t].pc = "construct"
    /\ IF th[t].name \in SupportedNames
       THEN /\ th' = [th EXCEPT ![t].pc = "store",
                                ![t].provider = NewProvider(th[t].name, gwSettings, nextId)]
            /\ nextId' = nextId + 1
            /\ constructed' = [constructed EXCEPT ![th[t].name] = @ + 1]
       ELSE /\ th' = [th EXCEPT ![t].pc = "idle",
                                ![t].ret = [NoRet EXCEPT !.status = "raised",
                                                         !.error = "ValueError"]]
            /\ UNCHANGED <<nextId, constructed>>
    /\ UNCHANGED <<gwSettings, providers, firstStored, calls>>
    /\ UNCHANGED otherThanGateway

\* Mutant of GpStore: the entry is keyed by the name as given, not lower-cased.
GpStore_UnderGivenName(t) ==
    /\ th[t].pc = "store"
    /\ providers' = Put(providers, th[t].arg, th[t].provider)
    /\ firstStored' = IF th[t].name \in DOMAIN firstStored THEN firstStored
                      ELSE Put(firstStored, th[t].name, th[t].provider)
    /\ th' = [th EXCEPT ![t].pc = "idle", ![t].wrote = TRUE,
                        ![t].ret = [status |-> "returned", error |-> None,
                                    provider |-> th[t].provider, cached |-> FALSE]]
    /\ UNCHANGED <<gwSettings, nextId, constructed, calls>>
    /\ UNCHANGED otherThanGateway

\* self._providers[provider_name] = provider; return provider
GpStore(t) ==
    /\ th[t].pc = "store"
    /\ providers' = Put(providers, th[t].name, th[t].provider)
    /\ firstStored' = IF th[t].name \in DOMAIN firstStored THEN firstStored
                      ELSE Put(firstStored, th[t].name, th[t].provider)
    /\ th' = [th EXCEPT ![t].pc = "idle", ![t].wrote = TRUE,
                        ![t].ret = [status |-> "returned", error |-> None,
                                    provider |-> th[t].provider, cached |-> FALSE]]
    /\ UNCHANGED <<gwSettings, nextId, constructed, calls>>
    /\ UNCHANGED otherThanGateway

GpCallSome == \E t \in Threads, n \in CallNames : GpCall(t, n)
\* Calls made one after the other: none is entered while another is running.
GpCallSeqSome ==
    /\ \A u \in Threads : th[u].pc = "idle"
    /\ \E t \in Threads, n \in CallNames : GpCall(t, n)
GpCheckSome == \E t \in Threads : GpCheck(t)
GpConstructSome == \E t \in Threads : GpConstruct(t)
GpStoreSome == \E t \in Threads : GpStore(t)

GatewayNext == GpCallSome \/ GpCheckSome \/ GpConstructSome \/ GpStoreSome
GatewaySeqNext == GpCallSeqSome \/ GpCheckSome \/ GpConstructSome \/ GpStoreSome

GatewaySpecInit ==
    /\ GatewayInit /\ SchedIdle /\ PromptIdle /\ InvokeIdle /\ ProviderIdle
    /\ SinkIdle /\ ProcessIdle
    /\ LaterIdle

\* get_provider called concurrently from the threads
GatewaySpec == GatewaySpecInit /\ [][GatewayNext]_vars
\* get_provider called any number of times, one call after the other
GatewaySeqSpec == GatewaySpecInit /\ [][GatewaySeqNext]_vars

(***************************************************************************)
(* Claims about Part 2                                                     *)
(***************************************************************************)
\* Same backend, same configuration: equal but for the object's identity.
Equivalent(p, q) == [p EXCEPT !.id = 0] = [q EXCEPT !.id = 0]

\* C6: under any interleaving of get_provider calls the cache's keys are supported
\* names, each entry is a provider of its name's backend built from the manager's
\* settings, and an entry is only ever replaced by an equivalent provider.
C6_CacheNeverCorrupted ==
    /\ DOMAIN providers \subseteq SupportedNames
    /\ \A n \in DOMAIN providers :
          Equivalent(providers[n], NewProvider(n, gwSettings, 0))
    /\ \A n \in DOMAIN firstStored :
          n \in DOMAIN providers /\ Equivalent(providers[n], firstStored[n])

\* Two racing calls both constructed a provider and the second store replaced the
\* entry of the first.
C6_Witness ==
    \E n \in SupportedNames :
        /\ constructed[n] = 2
        /\ n \in DOMAIN firstStored
        /\ providers[n].id # firstStored[n].id

\* C7: with calls made one after the other, a name is constructed at most once,
\* its entry is never removed or replaced, and every call that returns gives the
\* instance the first successful call created.
C7_CachePopulatedOnceNeverInvalidated ==
    /\ \A n \in SupportedNames : constructed[n] <= 1
    /\ \A n \in SupportedNames : (n \in DOMAIN providers) = (n \in DOMAIN firstStored)
    /\ \A n \in DOMAIN firstStored : providers[n] = firstStored[n]
    /\ \A t \in Threads :
          th[t].ret.status = "returned" =>
              /\ th[t].name \in DOMAIN firstStored
              /\ th[t].ret.provider = firstStored[th[t].name]

\* A later call was answered from the cache.
C7_Witness ==
    \E t \in Threads :
        /\ th[t].ret.status = "returned" /\ th[t].ret.cached
        /\ constructed[th[t].name] = 1

Ended(t) == th[t].pc = "idle" /\ th[t].ret.status # "none"

Rejected(t) ==
    /\ th[t].ret.status = "raised" /\ th[t].ret.error = "ValueError"
    /\ ~th[t].wrote
    /\ th[t].arg \notin DOMAIN providers
    /\ th[t].name \notin DOMAIN providers

\* C8 as stated: every call with a name outside the four supported names fails
\* with the unsupported-provider error and adds no entry.
C8_RejectsEveryNameOutsideTheFour ==
    \A t \in Threads : (Ended(t) /\ th[t].arg \notin SupportedNames) => Rejected(t)

\* C8 as amended: the name is lower-cased first; exactly the names whose
\* lower-cased form is outside the four are rejected, and a rejected call writes
\* nothing to the cache.
C8_RejectsNamesOutsideTheFourAfterLower ==
    \A t \in Threads :
        Ended(t) =>
            IF Lower(th[t].arg) \in SupportedNames
            THEN th[t].ret.status = "returned"
            ELSE Rejected(t)

\* A call with an unsupported name was rejected while the cache held an entry.
C8_Witness ==
    \E t \in Threads :
        /\ Ended(t) /\ th[t].arg = META /\ th[t].ret.status = "raised"
        /\ providers # <<>>


(***************************************************************************)
(* Part 3.  The prompt process_with_llm builds from prompt_template and    *)
(* content.  A string is a tuple of tokens: the two braces, the word       *)
(* content, and a token of other text.                                     *)
(***************************************************************************)
MaxTemplateLen == 6

TemplateTokens == {"{", "}", "content", "a"}

Templates == UNION {[1..k -> TemplateTokens] : k \in 0..MaxTemplateLen}

\* prompt_template: Optional[str]; <<>> is None, <<t>> is the string t
OptTemplates == {<<>>} \cup {<<t>> : t \in Templates}

Contents == {<<"X">>, <<"{", "a", "}">>}

DocumentLabel == <<"\n\nDocumento:\n">>
DefaultInstruction == <<"Analise o seguinte documento e forneca um resumo detalhado:\n\n">>

Formatted(text) == [status |-> "ok", error |-> None, text |-> text]
FormatError(e) == [status |-> "raised", error |-> e, text |-> <<>>]

\* "{content}" in prompt_template
HasPlaceholder(t) ==
    \E k \in 1..(Len(t) - 2) :
        t[k] = "{" /\ t[k + 1] = "content" /\ t[k + 2] = "}"

\* str.format(content=c) from position k on, acc being the text produced so far:
\* "{{" and "}}" are escapes, a single "}" and an unclosed or nested field are
\* ValueError, "{}" is a positional field with no positional argument
\* (IndexError), a field of another name is KeyError.
RECURSIVE FormatFrom(_, _, _, _)
FormatFrom(t, k, c, acc) ==
    IF k > Len(t) THEN Formatted(acc)
    ELSE IF t[k] = "{" THEN
        IF k = Len(t) THEN FormatError("ValueError")
        ELSE IF t[k + 1] = "{" THEN FormatFrom(t, k + 2, c, Append(acc, "{"))
        ELSE LET closes == {j \in (k + 1)..Len(t) : t[j] = "}"} IN
             IF closes = {} THEN FormatError("ValueError")
             ELSE LET e == CHOOSE j \in closes : \A i \in closes : j <= i
                      field_name == SubSeq(t, k + 1, e - 1)
                  IN  IF \E j \in (k + 1)..(e - 1) : t[j] = "{"
                      THEN FormatError("ValueError")
                      ELSE IF field_name = <<>> THEN FormatError("IndexError")
                      ELSE IF field_name = <<"content">>
                      THEN FormatFrom(t, e + 1, c, acc \o c)
                      ELSE FormatError("KeyError")
    ELSE IF t[k] = "}" THEN
        IF k < Len(t) /\ t[k + 1] = "}"
        THEN FormatFrom(t, k + 2, c, Append(acc, "}"))
        ELSE FormatError("ValueError")
    ELSE FormatFrom(t, k + 1, c, Append(acc, t[k]))

\* prompt_template.format(content=content)
Format(t, c) == FormatFrom(t, 1, c, <<>>)

\* The prompt of process_with_llm; "if prompt_template:" is false for None and "".
BuildPrompt(tpl, c) ==
    IF tpl # <<>> /\ tpl[1] # <<>>
    THEN IF HasPlaceholder(tpl[1])
         THEN Format(tpl[1], c)
         ELSE Formatted(tpl[1] \o DocumentLabel \o c)
    ELSE Formatted(DefaultInstruction \o c)

PromptInit ==
    /\ template \in OptTemplates
    /\ content \in Contents
    /\ built = [status |-> "idle", error |-> None, text |-> <<>>]

\* The prompt is built (or the build raises).
PromptBuild ==
    /\ built.status = "idle"
    /\ built' = BuildPrompt(template, content)
    /\ UNCHANGED <<template, content>>
    /\ UNCHANGED otherThanPrompt

PromptNext == PromptBuild

PromptSpecInit ==
    /\ PromptInit /\ SchedIdle /\ GatewayIdle /\ InvokeIdle /\ ProviderIdle
    /\ SinkIdle /\ ProcessIdle
    /\ LaterIdle

PromptSpec == PromptSpecInit /\ [][PromptNext]_vars

(***************************************************************************)
(* Claims about Part 3                                                     *)
(***************************************************************************)
\* The template with each placeholder replaced by c and all other text unchanged.
RECURSIVE Replaced(_, _, _)
Replaced(t, k, c) ==
    IF k > Len(t) THEN <<>>
    ELSE IF k + 2 <= Len(t) /\ t[k] = "{" /\ t[k + 1] = "content" /\ t[k + 2] = "}"
         THEN c \o Replaced(t, k + 3, c)
         ELSE <<t[k]>> \o Replaced(t, k + 1, c)

\* C9: a supplied template with the placeholder gives the template with the
\* placeholder replaced by the content and all other text unchanged; a supplied
\* template without it gives the template, the label, the content; no template
\* (or an empty one) gives the default instruction followed by the content.
C9_PromptConstruction ==
    built.status # "idle" =>
        IF template = <<>> \/ template = << <<>> >>
        THEN built = Formatted(DefaultInstruction \o content)
        ELSE IF HasPlaceholder(template[1])
             THEN built = Formatted(Replaced(template[1], 1, content))
             ELSE built = Formatted(template[1] \o DocumentLabel \o content)


(***************************************************************************)
(* Part 4.  LLMManager.process_with_llm: resolve the provider, build the   *)
(* prompt, await the provider's generate_response.  Invocations follow one *)
(* another on one manager, so the second finds the first's cache.          *)
(***************************************************************************)
MaxInvokes == 2

InvokeNames == {<<"O", "p", "e", "n", "A", "I">>, OLLAMA, META}

InvokeTemplates ==
    {<<>>,
     << <<"a">> >>,
     << <<"a", "{", "content", "}">> >>,
     << <<"{", "a", "}", "{", "content", "}">> >>}

\* max_tokens: Optional[int]; <<>> is None
InvokeMaxTokens == {<<>>, <<100>>}

InvokeArgs ==
    [content : {<<"X">>}, provider_name : InvokeNames, model : {"m1", "m2"},
     prompt_template : InvokeTemplates, max_tokens : InvokeMaxTokens]

NoResult == [status |-> "none", error |-> None, text |-> <<>>]

NoArgs ==
    [content |-> <<>>, provider_name |-> <<>>, model |-> None,
     prompt_template |-> <<>>, max_tokens |-> <<>>]

IdleInvoke ==
    [pc |-> "idle", args |-> NoArgs, provider |-> NoProvider, cached |-> FALSE,
     prompt |-> <<>>, result |-> NoResult]

\* A provider's generate_response against a deterministic backend: ValueError
\* without the credentials, else the backend's answer to the request sent.
GenerateResponse(p, prompt, model, max_tokens) ==
    IF \/ p.cls \in {"OpenAIProvider", "AnthropicProvider"} /\ p.api_key = None
       \/ p.cls = "BedrockProvider" /\
              (p.aws_access_key_id = None \/ p.aws_secret_access_key = None)
    THEN [status |-> "raised", error |-> "ValueError", text |-> <<>>]
    ELSE [status |-> "returned", error |-> None,
          text |-> <<p.cls, p.base_url, model, prompt, max_tokens>>]

InvokeInit ==
    /\ gwSettings \in GatewaySettings
    /\ providers = <<>>
    /\ nextId = 1
    /\ constructed = [n \in SupportedNames |-> 0]
    /\ inv = IdleInvoke
    /\ genCalls = <<>>
    /\ invLog = {}
    /\ invokes = 0

\* The invocation ends: its arguments and outcome are recorded.
InvokeEnd(i, result) ==
    /\ inv' = [i EXCEPT !.pc = "idle", !.result = result]
    /\ invLog' = invLog \cup
           {[args |-> i.args, status |-> result.status, text |-> result.text,
             cached |-> i.cached]}

\* process_with_llm(content, provider_name, model, prompt_template, max_tokens)
InvokeCall ==
    /\ inv.pc = "idle"
    /\ invokes < MaxInvokes
    /\ \E a \in InvokeArgs : inv' = [IdleInvoke EXCEPT !.pc = "resolve", !.args = a]
    /\ invokes' = invokes + 1
    /\ genCalls' = <<>>
    /\ UNCHANGED <<invLog, gwSettings, providers, nextId, constructed>>
    /\ UNCHANGED otherThanInvoke

\* provider = self.get_provider(provider_name)
InvokeResolve ==
    /\ inv.pc = "resolve"
    /\ LET name == Lower(inv.args.provider_name) IN
       IF name \in DOMAIN providers
       THEN /\ inv' = [inv EXCEPT !.pc = "prompt", !.provider = providers[name],
                                  !.cached = TRUE]
            /\ UNCHANGED <<providers, nextId, constructed, invLog>>
       ELSE IF name \in SupportedNames
       THEN /\ inv' = [inv EXCEPT !.pc = "prompt",
                                  !.provider = NewProvider(name, gwSettings, nextId)]
            /\ providers' = Put(providers, name, NewProvider(name, gwSettings, nextId))
            /\ nextId' = nextId + 1
            /\ constructed' = [constructed EXCEPT ![name] = @ + 1]
            /\ UNCHANGED invLog
       ELSE /\ InvokeEnd(inv, [NoResult EXCEPT !.status = "raised",
                                               !.error = "ValueError"])
            /\ UNCHANGED <<providers, nextId, constructed>>
    /\ UNCHANGED <<genCalls, invokes, gwSettings>>
    /\ UNCHANGED otherThanInvoke

\* The prompt is built; an exception of str.format leaves process_with_llm.
InvokeBuildPrompt ==
    /\ inv.pc = "prompt"
    /\ LET b == BuildPrompt(inv.args.prompt_template, inv.args.content) IN
       IF b.status = "ok"
       THEN /\ inv' = [inv EXCEPT !.pc = "generate", !.prompt = b.text]
            /\ UNCHANGED invLog
       ELSE InvokeEnd(inv, [NoResult EXCEPT !.status = "raised", !.error = b.error])
    /\ UNCHANGED <<genCalls, invokes, gwSettings, providers, nextId, constructed>>
    /\ UNCHANGED otherThanInvoke

\* provider.generate_response(prompt=prompt, model=model, max_tokens=max_tokens)
InvokeGenerate ==
    /\ inv.pc = "generate"
    /\ genCalls' = Append(genCalls,
                          [provider |-> inv.provider, prompt |-> inv.prompt,
                           model |-> inv.args.model,
                           max_tokens |-> inv.args.max_tokens])
    /\ inv' = [inv EXCEPT !.pc = "awaiting"]
    /\ UNCHANGED <<invLog, invokes, gwSettings, providers, nextId, constructed>>
    /\ UNCHANGED otherThanInvoke

\* return await ...: the provider's result, or its exception, is the invocation's.
InvokeReturn ==
    /\ inv.pc = "awaiting"
    /\ LET c == genCalls[Len(genCalls)] IN
       InvokeEnd(inv, GenerateResponse(c.provider, c.prompt, c.model, c.max_tokens))
    /\ UNCHANGED <<genCalls, invokes, gwSettings, providers, nextId, constructed>>
    /\ UNCHANGED otherThanInvoke

InvokeNext ==
    InvokeCall \/ InvokeResolve \/ InvokeBuildPrompt \/ InvokeGenerate \/ InvokeReturn

InvokeSpecInit ==
    /\ InvokeInit
    /\ SchedIdle /\ PromptIdle /\ ProviderIdle /\ SinkIdle /\ ProcessIdle
    /\ th = <<>> /\ calls = 0 /\ firstStored = <<>>
    /\ LaterIdle

InvokeSpec == InvokeSpecInit /\ [][InvokeNext]_vars

(***************************************************************************)
(* Claims about Part 4                                                     *)
(***************************************************************************)
InvokeEnded == inv.pc = "idle" /\ invokes > 0

\* The one call the invocation is to make on the provider it resolved.
DelegatedOnce ==
    /\ Len(genCalls) = 1
    /\ genCalls[1].provider = providers[Lower(inv.args.provider_name)]
    /\ BuildPrompt(inv.args.prompt_template, inv.args.content) =
           Formatted(genCalls[1].prompt)
    /\ genCalls[1].model = inv.args.model
    /\ genCalls[1].max_tokens = inv.args.max_tokens
    /\ inv.result = GenerateResponse(genCalls[1].provider, genCalls[1].prompt,
                                     genCalls[1].model, genCalls[1].max_tokens)

UnsupportedFailsFirst ==
    /\ inv.result.status = "raised" /\ inv.result.error = "ValueError"
    /\ genCalls = <<>>

SameTextFreshOrCached ==
    \A e1, e2 \in invLog :
        (e1.args = e2.args /\ e1.status = "returned" /\ e2.status = "returned")
            => e1.text = e2.text

\* C10: no provider is called before the provider is resolved; an invocation with
\* an unsupported name fails before any provider call; every other invocation
\* calls the resolved provider's generate_response exactly once with the built
\* prompt, the model and max_tokens and hands its result on; identical
\* invocations return the same text from a fresh and from a cached provider.
C10_InvokeDelegatesExactlyOnce ==
    /\ inv.pc = "resolve" => genCalls = <<>>
    /\ InvokeEnded =>
          IF Lower(inv.args.provider_name) \in SupportedNames
          THEN DelegatedOnce
          ELSE UnsupportedFailsFirst
    /\ SameTextFreshOrCached

\* The part of C10 that holds: the same, for the invocations whose prompt
\* construction does not raise; the others end with the exception of str.format
\* and no provider call.
InvokeDelegatesOnceWhenPromptBuilt ==
    /\ inv.pc \in {"resolve", "prompt"} => genCalls = <<>>
    /\ InvokeEnded =>
          IF Lower(inv.args.provider_name) \notin SupportedNames
          THEN UnsupportedFailsFirst
          ELSE IF BuildPrompt(inv.args.prompt_template, inv.args.content).status = "ok"
          THEN DelegatedOnce
          ELSE /\ inv.result.status = "raised"
               /\ inv.result.error =
                      BuildPrompt(inv.args.prompt_template, inv.args.content).error
               /\ genCalls = <<>>
    /\ SameTextFreshOrCached

\* Two identical invocations returned, the first on a fresh provider and the
\* second on the cached one.
InvokeFreshThenCached ==
    \E e1, e2 \in invLog :
        /\ e1.args = e2.args /\ ~e1.cached /\ e2.cached
        /\ e1.status = "returned" /\ e2.status = "returned"


(***************************************************************************)
(* Part 5.  generate_response of the four providers against a backend that *)
(* can answer anything: the credentials check, the request (httpx) or the  *)
(* executor job (boto3), the reply and what the provider makes of it.      *)
(***************************************************************************)
HttpProviders == {"OpenAIProvider", "AnthropicProvider", "OllamaProvider"}

\* A credential as configured: absent, empty, or set.
CredentialValues == {None, "", "key"}

\* "not v" on an Optional[str]
Falsy(v) == v \in {None, ""}

ProviderObjects ==
    {ProviderRec(c, k, "url", None, None, None, 0) :
        c \in {"OpenAIProvider", "AnthropicProvider"}, k \in CredentialValues}
    \cup {ProviderRec("OllamaProvider", None, "url", None, None, None, 0)}
    \cup {ProviderRec("BedrockProvider", None, None, a, k, "us-east-1", 0) :
            a \in CredentialValues, k \in CredentialValues}

\* JSON objects a backend can put in a reply: each provider's own format,
\* well-formed, with an empty list, or an error object without the field.
JsonBodies ==
    {[choices |-> << [message |-> [content |-> "text"]] >>],
     [choices |-> <<>>],
     [content |-> << [text |-> "text"] >>],
     [content |-> <<>>],
     [response |-> "text"],
     [results |-> << [outputText |-> "text"] >>],
     [results |-> <<>>],
     [error |-> "message"]}

HttpReply(kind, status, json, body) ==
    [kind |-> kind, status |-> status, json |-> json, body |-> body]

NoReply == HttpReply("none", 0, FALSE, [raw |-> ""])

\* What the awaited client.post ends with: an exception of the transport, or a
\* response with a status and a body that is JSON or is not.
HttpReplies ==
    {HttpReply(k, 0, FALSE, [raw |-> ""]) : k \in {"TimeoutException", "ConnectError"}}
    \cup {HttpReply("response", st, FALSE, [raw |-> "<html>"]) : st \in {200, 404, 500}}
    \cup {HttpReply("response", st, TRUE, b) : st \in {200, 500}, b \in JsonBodies}

\* What client.invoke_model ends with on the worker.
BedrockReplies ==
    {HttpReply(k, 0, FALSE, [raw |-> ""]) : k \in {"ClientError", "EndpointConnectionError"}}
    \cup {HttpReply("response", 200, TRUE, b) : b \in JsonBodies}

ProvNone == [status |-> "none", error |-> None, text |-> ""]
ProvReturned(t) == [status |-> "returned", error |-> None, text |-> t]
ProvRaised(e) == [status |-> "raised", error |-> e, text |-> ""]

\* Exception classes that are httpx.HTTPError
IsHTTPError(e) == e \in {"TimeoutException", "ConnectError", "HTTPStatusError"}

\* Exception classes that are ValueError (json.JSONDecodeError is one)
IsValueError(e) == e \in {"ValueError", "JSONDecodeError"}

\* response.raise_for_status(); result = response.json(): the exception, or None
ResponseError(reply) ==
    IF reply.kind # "response" THEN reply.kind
    ELSE IF reply.status \notin 200..299 THEN "HTTPStatusError"
    ELSE IF ~reply.json THEN "JSONDecodeError"
    ELSE None

\* The return expression of each provider on the parsed JSON object.
ExtractText(cls, body) ==
    CASE cls = "OpenAIProvider" ->
            IF "choices" \notin DOMAIN body THEN ProvRaised("KeyError")
            ELSE IF body.choices = <<>> THEN ProvRaised("IndexError")
            ELSE ProvReturned(body.choices[1].message.content)
      [] cls = "AnthropicProvider" ->
            IF "content" \notin DOMAIN body THEN ProvRaised("KeyError")
            ELSE IF body.content = <<>> THEN ProvRaised("IndexError")
            ELSE ProvReturned(body.content[1].text)
      [] cls = "OllamaProvider" ->
            IF "response" \in DOMAIN body THEN ProvReturned(body.response)
            ELSE ProvReturned("")


\* "claude" in model.lower()
IsClaude(model) == model \in {"claude-3"}

\* The return expression of _invoke_bedrock on the parsed response body.
BedrockText(model, body) ==
    IF IsClaude(model)
    THEN IF "content" \notin DOMAIN body THEN ProvRaised("KeyError")
         ELSE IF body.content = <<>> THEN ProvRaised("IndexError")
         ELSE ProvReturned(body.content[1].text)
    ELSE IF "results" \notin DOMAIN body THEN ProvReturned("")
         ELSE IF body.results = <<>> THEN ProvRaised("IndexError")
         ELSE ProvReturned(body.results[1].outputText)

\* The try / except httpx.HTTPError around the request of the HTTP providers.
HttpResult(cls, reply) ==
    LET e == ResponseError(reply) IN
    IF e = None THEN ExtractText(cls, reply.body)
    ELSE IF IsHTTPError(e) THEN ProvRaised("ValueError")
    ELSE ProvRaised(e)

\* The try / except ClientError of _invoke_bedrock.
BedrockResult(model, reply) ==
    IF reply.kind = "ClientError" THEN ProvRaised("ValueError")
    ELSE IF reply.kind # "response" THEN ProvRaised(reply.kind)
    ELSE BedrockText(model, reply.body)

\* The credentials each generate_response requires before anything else.
CredentialsMissing(p) ==
    CASE p.cls \in {"OpenAIProvider", "AnthropicProvider"} -> Falsy(p.api_key)
      [] p.cls = "BedrockProvider" ->
            Falsy(p.aws_access_key_id) \/ Falsy(p.aws_secret_access_key)
      [] OTHER -> FALSE

\* generate_response(prompt, model, max_tokens); <<>> is max_tokens=None
ProviderArgs ==
    [prompt : {"prompt"}, model : {"claude-3", "titan"},
     max_tokens : {<<>>, <<0>>, <<100>>}]

\* "if max_tokens:" and "max_tokens or 4096"
MaxTokensSet(a) == a.max_tokens # <<>> /\ a.max_tokens[1] # 0

NoRequest == [model |-> None, prompt |-> None, max_tokens |-> <<>>]

\* The payload / body each provider builds for the request.
Payload(cls, a) ==
    [model |-> a.model, prompt |-> a.prompt,
     max_tokens |-> IF MaxTokensSet(a) THEN a.max_tokens
                    ELSE IF cls \in {"AnthropicProvider", "BedrockProvider"}
                         THEN <<4096>> ELSE <<>>]

ProviderInit ==
    /\ prv \in {[pc |-> "start", self |-> p, args |-> a, request |-> NoRequest,
                  reply |-> NoReply, result |-> ProvNone] :
                   p \in ProviderObjects, a \in ProviderArgs}
    /\ effects = <<>>

\* Mutant of ProvStart: the request leaves before the credentials are looked at.
ProvStart_RequestBeforeCheck ==
    /\ prv.pc = "start"
    /\ IF prv.self.cls \in HttpProviders
       THEN /\ effects' = <<"httpx.AsyncClient", "post">>
            /\ prv' = IF CredentialsMissing(prv.self)
                      THEN [prv EXCEPT !.pc = "done", !.result = ProvRaised("ValueError")]
                      ELSE [prv EXCEPT !.pc = "awaiting",
                                       !.request = Payload(prv.self.cls, prv.args)]
       ELSE /\ effects' = <<"run_in_executor">>
            /\ prv' = IF CredentialsMissing(prv.self)
                      THEN [prv EXCEPT !.pc = "done", !.result = ProvRaised("ValueError")]
                      ELSE [prv EXCEPT !.pc = "worker"]
    /\ UNCHANGED otherThanProvider

\* generate_response up to its await: the credentials check, then the client and
\* the request (HTTP providers) or the executor job (Bedrock).
ProvStart ==
    /\ prv.pc = "start"
    /\ IF CredentialsMissing(prv.self)
       THEN /\ prv' = [prv EXCEPT !.pc = "done", !.result = ProvRaised("ValueError")]
            /\ UNCHANGED effects
       ELSE IF prv.self.cls \in HttpProviders
       THEN /\ effects' = <<"httpx.AsyncClient", "post">>
            /\ prv' = [prv EXCEPT !.pc = "awaiting",
                                  !.request = Payload(prv.self.cls, prv.args)]
       ELSE /\ effects' = <<"run_in_executor">>
            /\ prv' = [prv EXCEPT !.pc = "worker"]
    /\ UNCHANGED otherThanProvider

\* _invoke_bedrock on the worker: _get_bedrock_client, then client.invoke_model.
ProvWorker ==
    /\ prv.pc = "worker"
    /\ effects' = effects \o <<"boto3.client", "invoke_model">>
    /\ prv' = [prv EXCEPT !.pc = "awaiting",
                          !.request = Payload(prv.self.cls, prv.args)]
    /\ UNCHANGED otherThanProvider

\* The reply arrives and generate_response returns or raises.
ProvReply ==
    /\ prv.pc = "awaiting"
    /\ IF prv.self.cls \in HttpProviders
       THEN \E r \in HttpReplies :
                prv' = [prv EXCEPT !.pc = "done", !.reply = r,
                                   !.result = HttpResult(prv.self.cls, r)]
       ELSE \E r \in BedrockReplies :
                prv' = [prv EXCEPT !.pc = "done", !.reply = r,
                                   !.result = BedrockResult(prv.args.model, r)]
    /\ UNCHANGED effects
    /\ UNCHANGED otherThanProvider

ProviderNext == ProvStart \/ ProvWorker \/ ProvReply

ProviderSpecInit ==
    /\ ProviderInit /\ SchedIdle /\ GatewayIdle /\ PromptIdle /\ InvokeIdle
    /\ SinkIdle /\ ProcessIdle
    /\ LaterIdle

ProviderSpec == ProviderSpecInit /\ [][ProviderNext]_vars

(***************************************************************************)
(* Claims about Part 5                                                     *)
(***************************************************************************)
\* C11: with a missing API key (OpenAI, Anthropic) or a missing access key or
\* secret (Bedrock), generate_response raises the missing-credentials ValueError
\* and has sent no request, constructed no client and submitted no worker job;
\* nothing leaves the call before the check has passed.
C11_CredentialChecksFailFast ==
    /\ (prv.pc # "start" /\ CredentialsMissing(prv.self)) =>
          /\ prv.pc = "done"
          /\ prv.result = ProvRaised("ValueError")
          /\ effects = <<>>
    /\ prv.pc = "start" => effects = <<>>
    /\ effects # <<>> => ~CredentialsMissing(prv.self)

\* A Bedrock call with the access key set and the secret absent has failed.
C11_Witness ==
    /\ prv.pc = "done"
    /\ prv.self.cls = "BedrockProvider"
    /\ prv.self.aws_access_key_id = "key" /\ prv.self.aws_secret_access_key = None
    /\ prv.result = ProvRaised("ValueError") /\ effects = <<>>

\* The reply carries the text in the provider's own format.
WellFormed(cls, reply) ==
    /\ reply.kind = "response" /\ reply.status \in 200..299 /\ reply.json
    /\ CASE cls = "OpenAIProvider" ->
                "choices" \in DOMAIN reply.body /\ reply.body.choices # <<>>
         [] cls = "AnthropicProvider" ->
                "content" \in DOMAIN reply.body /\ reply.body.content # <<>>
         [] cls = "OllamaProvider" -> "response" \in DOMAIN reply.body
         [] OTHER -> FALSE

\* C12: once the request was sent, an OpenAI, Anthropic or Ollama call that gets
\* a timeout, a non-2xx status or a 2xx reply without the expected field ends by
\* raising the one normalized error kind (ValueError), and nothing else.
C12_RemoteFailuresNormalized ==
    (prv.pc = "done" /\ prv.self.cls \in HttpProviders /\ effects # <<>>
        /\ ~WellFormed(prv.self.cls, prv.reply)) =>
            /\ prv.result.status = "raised"
            /\ IsValueError(prv.result.error)


(***************************************************************************)
(* Part 6.  FileStorageService.save_file, one call, with the operations it *)
(* performs on the file system and on the storage SDKs.                    *)
(***************************************************************************)
\* str.encode("utf-8") on a string given as its code points (below U+0800)
RECURSIVE Utf8Encode(_)
Utf8Encode(str) ==
    IF str = <<>> THEN <<>>
    ELSE (IF Head(str) < 128 THEN <<Head(str)>>
          ELSE <<192 + (Head(str) \div 64), 128 + (Head(str) % 64)>>)
         \o Utf8Encode(Tail(str))

\* The content argument: "A" and "é"
SinkContents == {<<65>>, <<233>>}

SinkArgs(d, p, b, k, c, n) ==
    [destination |-> d, destination_path |-> p, bucket_name |-> b, object_key |-> k,
     container_name |-> c, blob_name |-> n]

SinkCalls ==
    {SinkArgs(d, p, None, None, None, None) :
        d \in {"local", "network_path"}, p \in {None, "dir"}}
    \cup {SinkArgs("s3", None, b, k, None, None) : b \in {None, "bkt"}, k \in {None, "key"}}
    \cup {SinkArgs("azure", None, None, None, c, n) :
            c \in {None, "cont"}, n \in {None, "blob"}}

\* The settings the service holds and the state of the destination.
SinkEnvs ==
    [aws_access_key_id : {None, "key"}, aws_secret_access_key : {None, "key"},
     azure_storage_connection_string : {None, "conn"},
     path_exists : BOOLEAN, container_exists : BOOLEAN]

\* Only the part of the environment the destination reads varies.
SinkEnvsFor(a) ==
    {e \in SinkEnvs :
        /\ a.destination # "s3" =>
              e.aws_access_key_id = "key" /\ e.aws_secret_access_key = "key"
        /\ a.destination # "azure" =>
              e.azure_storage_connection_string = "conn" /\ e.container_exists
        /\ a.destination # "network_path" => e.path_exists}

SinkEvent(ev, at, body) == [ev |-> ev, at |-> at, body |-> body]

SinkNone == [status |-> "none", error |-> None, location |-> <<>>]
SinkReturned(l) == [status |-> "returned", error |-> None, location |-> l]
SinkRaised(e) == [status |-> "raised", error |-> e, location |-> <<>>]

SinkInit ==
    /\ sink \in {[pc |-> "start", args |-> a, content |-> c, file_name |-> "f1",
                  env |-> e, path |-> None, answer |-> None, result |-> SinkNone] :
                    a \in SinkCalls, c \in SinkContents, e \in SinkEnvs}
    /\ sink.env \in SinkEnvsFor(sink.args)
    /\ sinkLog = <<>>

\* save_file's checks of the destination's required parameters: the error, or None
RequiredParameterError(a) ==
    CASE a.destination = "local" -> None
      [] a.destination = "network_path" ->
            IF a.destination_path = None THEN "ValueError" ELSE None
      [] a.destination = "s3" ->
            IF a.bucket_name = None \/ a.object_key = None THEN "ValueError" ELSE None
      [] a.destination = "azure" ->
            IF a.container_name = None \/ a.blob_name = None THEN "ValueError" ELSE None

\* Mutant of SinkValidate: the parameters are not checked before the sink runs.
SinkValidate_NoCheck ==
    /\ sink.pc = "start"
    /\ sink' = [sink EXCEPT !.pc = "sink",
                            !.path = IF sink.args.destination_path = None
                                     THEN default_output_path
                                     ELSE sink.args.destination_path]
    /\ UNCHANGED sinkLog
    /\ UNCHANGED otherThanSink

\* save_file: the branch on the destination and its required parameters; the
\* handler logs and re-raises.
SinkValidate ==
    /\ sink.pc = "start"
    /\ IF RequiredParameterError(sink.args) # None
       THEN sink' = [sink EXCEPT !.pc = "done",
                                 !.result = SinkRaised(RequiredParameterError(sink.args))]
       ELSE sink' = [sink EXCEPT !.pc = "sink",
                                 !.path = IF sink.args.destination = "local"
                                             /\ sink.args.destination_path = None
                                          THEN default_output_path
                                          ELSE sink.args.destination_path]
    /\ UNCHANGED sinkLog
    /\ UNCHANGED otherThanSink

SinkFail(e) == sink' = [sink EXCEPT !.pc = "done", !.result = SinkRaised(e)]

\* _save_to_local / _save_to_network up to the awaited write.
SinkRunFile ==
    /\ sink.pc = "sink"
    /\ sink.args.destination \in {"local", "network_path"}
    /\ LET mkdir == SinkEvent("mkdir", <<sink.path>>, <<>>)
           write == SinkEvent("write", <<sink.path, sink.file_name>>, sink.content)
       IN
       IF sink.args.destination = "network_path" /\ sink.env.path_exists
       THEN /\ sinkLog' = sinkLog \o <<write>>
            /\ sink' = [sink EXCEPT !.pc = "writing"]
       ELSE \E mkdir_ok \in BOOLEAN :
               IF mkdir_ok
               THEN /\ sinkLog' = sinkLog \o <<mkdir, write>>
                    /\ sink' = [sink EXCEPT !.pc = "writing"]
               ELSE /\ sinkLog' = sinkLog \o <<mkdir>>
                    /\ SinkFail(IF sink.args.destination = "local"
                                THEN "OSError" ELSE "IOError")
    /\ UNCHANGED otherThanSink

\* Mutant of SinkRunS3: the object is put before the credentials are checked.
SinkRunS3_UploadFirst ==
    /\ sink.pc = "sink"
    /\ sink.args.destination = "s3"
    /\ sinkLog' = sinkLog \o
           <<SinkEvent("boto3.client", <<>>, <<>>),
             SinkEvent("put_object", <<sink.args.bucket_name, sink.args.object_key>>,
                       Utf8Encode(sink.content))>>
    /\ IF Falsy(sink.env.aws_access_key_id) \/ Falsy(sink.env.aws_secret_access_key)
       THEN SinkFail("ValueError")
       ELSE sink' = [sink EXCEPT !.pc = "sdk"]
    /\ UNCHANGED otherThanSink

\* _save_to_s3 up to put_object.
SinkRunS3 ==
    /\ sink.pc = "sink"
    /\ sink.args.destination = "s3"
    /\ IF Falsy(sink.env.aws_access_key_id) \/ Falsy(sink.env.aws_secret_access_key)
       THEN SinkFail("ValueError") /\ UNCHANGED sinkLog
       ELSE /\ sinkLog' = sinkLog \o
                   <<SinkEvent("boto3.client", <<>>, <<>>),
                     SinkEvent("put_object",
                               <<sink.args.bucket_name, sink.args.object_key>>,
                               Utf8Encode(sink.content))>>
            /\ sink' = [sink EXCEPT !.pc = "sdk"]
    /\ UNCHANGED otherThanSink

\* _save_to_azure up to upload_blob; every exception leaves it as IOError.
SinkRunAzure ==
    /\ sink.pc = "sink"
    /\ sink.args.destination = "azure"
    /\ LET client == SinkEvent("from_connection_string", <<>>, <<>>)
           exists_ == SinkEvent("container.exists", <<sink.args.container_name>>, <<>>)
           create == SinkEvent("create_container", <<sink.args.container_name>>, <<>>)
           upload == SinkEvent("upload_blob",
                               <<sink.args.container_name, sink.args.blob_name>>,
                               Utf8Encode(sink.content))
       IN
       IF Falsy(sink.env.azure_storage_connection_string)
       THEN SinkFail("IOError") /\ UNCHANGED sinkLog
       ELSE \/ /\ sinkLog' = sinkLog \o <<client, exists_>>
               /\ SinkFail("IOError")
            \/ /\ ~sink.env.container_exists
               /\ sinkLog' = sinkLog \o <<client, exists_, create>>
               /\ SinkFail("IOError")
            \/ /\ sinkLog' = sinkLog \o <<client, exists_>>
                                \o (IF sink.env.container_exists THEN <<>> ELSE <<create>>)
                                \o <<upload>>
               /\ sink' = [sink EXCEPT !.pc = "sdk"]
    /\ UNCHANGED otherThanSink

\* The path or URI the sink returns.
SinkLocation(sk) ==
    CASE sk.args.destination \in {"local", "network_path"} ->
            <<sk.path, "/", sk.file_name>>
      [] sk.args.destination = "s3" ->
            <<"s3://", sk.args.bucket_name, "/", sk.args.object_key>>
      [] sk.args.destination = "azure" ->
            <<"https://", "account", ".blob.core.windows.net/",
              sk.args.container_name, "/", sk.args.blob_name>>

\* What the write or the SDK call ends with, and what the sink raises for it.
SinkAnswers(d) ==
    CASE d \in {"local", "network_path"} -> {"ok", "OSError"}
      [] d = "s3" -> {"ok", "ClientError", "EndpointConnectionError"}
      [] d = "azure" -> {"ok", "HttpResponseError"}

SinkError(d, r) ==
    CASE d \in {"local", "network_path"} -> r
      [] d = "s3" -> IF r = "ClientError" THEN "IOError" ELSE r
      [] d = "azure" -> "IOError"

\* The write / put_object / upload_blob ends; save_file returns or re-raises.
SinkComplete ==
    /\ sink.pc \in {"writing", "sdk"}
    /\ \E r \in SinkAnswers(sink.args.destination) :
          sink' = [sink EXCEPT !.pc = "done", !.answer = r,
                               !.result = IF r = "ok" THEN SinkReturned(SinkLocation(sink))
                                          ELSE SinkRaised(SinkError(sink.args.destination, r))]
    /\ UNCHANGED sinkLog
    /\ UNCHANGED otherThanSink

SinkNext == SinkValidate \/ SinkRunFile \/ SinkRunS3 \/ SinkRunAzure \/ SinkComplete

SinkSpecInit ==
    /\ SinkInit /\ SchedIdle /\ GatewayIdle /\ PromptIdle /\ InvokeIdle
    /\ ProviderIdle /\ ProcessIdle
    /\ LaterIdle

SinkSpec == SinkSpecInit /\ [][SinkNext]_vars

(***************************************************************************)
(* Claims about save_file.                                                 *)
(***************************************************************************)
SinkEvents(names) == {i \in 1..Len(sinkLog) : sinkLog[i].ev \in names}

RequiredParameterMissing ==
    \/ sink.args.destination = "network_path" /\ sink.args.destination_path = None
    \/ sink.args.destination = "s3"
          /\ (sink.args.bucket_name = None \/ sink.args.object_key = None)
    \/ sink.args.destination = "azure"
          /\ (sink.args.container_name = None \/ sink.args.blob_name = None)

\* C18: when a parameter its destination requires is missing (the path of a
\* network destination, the bucket or the key of an S3 one, the container or
\* the blob name of an Azure one), save_file never reaches a sink, so that no
\* directory is made, no client built and nothing written or uploaded, and
\* the call ends raising ValueError.
C18_MissingParameterFailsBeforeAnyEffect ==
    RequiredParameterMissing =>
        /\ sink.pc \in {"start", "done"}
        /\ sinkLog = <<>>
        /\ sink.pc = "done" => sink.result = SinkRaised("ValueError")

\* An S3 save without its key has ended.
C18_Witness ==
    /\ sink.pc = "done"
    /\ sink.args.destination = "s3"
    /\ sink.args.bucket_name # None /\ sink.args.object_key = None
    /\ sink.result = SinkRaised("ValueError")

\* C19: an Azure save without a connection string ends raising the error the
\* S3 sink raises for absent credentials (ValueError), with no container
\* created and no upload attempted.
C19_AzureMissingConnectionString ==
    (/\ sink.pc = "done"
     /\ sink.args.destination = "azure"
     /\ ~RequiredParameterMissing
     /\ sink.env.azure_storage_connection_string = None) =>
        /\ sink.result = SinkRaised("ValueError")
        /\ SinkEvents({"create_container", "upload_blob"}) = {}

S3CredentialsAbsent ==
    sink.env.aws_access_key_id = None \/ sink.env.aws_secret_access_key = None

MaxBytes == 3
MaxPages == 2

SUPPORTED_EXTENSIONS ==
    {<<".", "p", "d", "f">>, <<".", "t", "x", "t">>, <<".", "d", "o", "c", "x">>,
     <<".", "d", "o", "c">>, <<".", "p", "p", "t", "x">>, <<".", "p", "p", "t">>}

\* file_name.split(".")[-1]
RECURSIVE LastSegment(_)
LastSegment(name) ==
    IF \E k \in 1..Len(name) : name[k] = "."
    THEN LastSegment(SubSeq(name, 1 + (CHOOSE k \in 1..Len(name) : name[k] = "."),
                            Len(name)))
    ELSE name

_get_file_extension(file_name) == <<".">> \o Lower(LastSegment(file_name))

ProcNames ==
    {<<"a", ".", "t", "x", "t">>, <<"a", ".", "T", "X", "T">>,
     <<"a", ".", "p", "d", "f">>, <<"a", ".", "P", "d", "f">>, <<"p", "d", "f">>,
     <<"a", ".", "b", ".", "d", "o", "c", "x">>, <<"a", ".", "d", "o", "c">>,
     <<"a", ".", "p", "p", "t", "x">>, <<"a", ".", "P", "P", "T">>,
     <<"a", ".", "x", "l", "s">>, <<"t", "x", "t", ".", "b", "a", "k">>,
     <<"a", ".">>, <<"a">>}

\* "A", the Windows-1252 euro sign, a byte Windows-1252 leaves undefined, a
\* continuation byte, a two-byte lead and a three-byte lead of UTF-8
ProcBytes == {65, 128, 129, 169, 195, 233}

ByteSeqs == UNION {[1..n -> ProcBytes] : n \in 0..MaxBytes}

Decoded(text) == [ok |-> TRUE, text |-> text]
UnicodeDecodeError == [ok |-> FALSE, text |-> <<>>]

Continuation(b) == b \in 128..191

\* bytes.decode("utf-8"), strict
RECURSIVE Utf8Decode(_)
Utf8Decode(b) ==
    IF b = <<>> THEN Decoded(<<>>)
    ELSE LET n == IF b[1] < 128 THEN 1
                  ELSE IF b[1] \in 194..223 THEN 2
                  ELSE IF b[1] \in 224..239 THEN 3
                  ELSE IF b[1] \in 240..244 THEN 4
                  ELSE 0
             second == IF b[1] = 224 THEN 160..191
                       ELSE IF b[1] = 237 THEN 128..159
                       ELSE IF b[1] = 240 THEN 144..191
                       ELSE IF b[1] = 244 THEN 128..143
                       ELSE 128..191
         IN IF n = 0 \/ Len(b) < n THEN UnicodeDecodeError
            ELSE IF n >= 2 /\ b[2] \notin second THEN UnicodeDecodeError
            ELSE IF \E k \in 3..n : ~Continuation(b[k]) THEN UnicodeDecodeError
            ELSE LET cp == CASE n = 1 -> b[1]
                             [] n = 2 -> (b[1] - 192) * 64 + (b[2] - 128)
                             [] n = 3 -> (b[1] - 224) * 4096 + (b[2] - 128) * 64
                                            + (b[3] - 128)
                             [] n = 4 -> (b[1] - 240) * 262144 + (b[2] - 128) * 4096
                                            + (b[3] - 128) * 64 + (b[4] - 128)
                     rest == Utf8Decode(SubSeq(b, n + 1, Len(b)))
                 IN IF rest.ok THEN Decoded(<<cp>> \o rest.text)
                    ELSE UnicodeDecodeError

\* Mutant of Latin1Decode: the codec rejects the bytes above 0x7F.
Latin1Decode_AsciiOnly(b) ==
    IF \E k \in 1..Len(b) : b[k] > 127 THEN UnicodeDecodeError ELSE Decoded(b)

\* bytes.decode("latin-1"): every byte is its code point
Latin1Decode(b) == Decoded(b)

\* Windows-1252 for the bytes 0x80..0x9F; 0 where the code page is undefined
Cp1252High ==
    <<8364, 0, 8218, 402, 8222, 8230, 8224, 8225, 710, 8240, 352, 8249, 338, 0, 381, 0,
      0, 8216, 8217, 8220, 8221, 8226, 8211, 8212, 732, 8482, 353, 8250, 339, 0, 382, 376>>

\* bytes.decode("cp1252")
Cp1252Decode(b) ==
    IF \E k \in 1..Len(b) : b[k] \in 128..159 /\ Cp1252High[b[k] - 127] = 0
    THEN UnicodeDecodeError
    ELSE Decoded([k \in 1..Len(b) |->
                    IF b[k] \in 128..159 THEN Cp1252High[b[k] - 127] ELSE b[k]])

encodings == <<"utf-8", "latin-1", "cp1252">>

Decode(encoding, b) ==
    CASE encoding = "utf-8" -> Utf8Decode(b)
      [] encoding = "latin-1" -> Latin1Decode(b)
      [] encoding = "cp1252" -> Cp1252Decode(b)

\* What PyPDF2 / python-docx / python-pptx make of the bytes: whether the
\* file opens, what each PDF page yields, and where the reading of the
\* format's metadata fails.
PageKinds == {"text", "blank", "broken"}
PageSeqs == UNION {[1..n -> PageKinds] : n \in 0..MaxPages}
MetaFailures == {"none", "open", "properties"}

Library(open, pages, meta_fail) == [open |-> open, pages |-> pages, meta_fail |-> meta_fail]
NoLibrary == Library(TRUE, <<>>, "none")

LibrariesFor(ext) ==
    IF ext = <<".", "p", "d", "f">>
    THEN {Library(FALSE, <<>>, "open")}
         \cup {Library(TRUE, p, m) : p \in PageSeqs, m \in MetaFailures}
    ELSE IF ext \in SUPPORTED_EXTENSIONS \ {<<".", "t", "x", "t">>}
    THEN {Library(FALSE, <<>>, "open")}
         \cup {Library(TRUE, <<>>, m) : m \in MetaFailures}
    ELSE {NoLibrary}

BytesFor(ext) == IF ext = <<".", "t", "x", "t">> THEN ByteSeqs ELSE {<<65>>}

\* "\n\n".join(text_parts)
RECURSIVE Join(_)
Join(parts) ==
    IF parts = <<>> THEN <<>>
    ELSE IF Len(parts) = 1 THEN parts[1]
    ELSE parts[1] \o <<"\n\n">> \o Join(Tail(parts))

\* _extract_from_pdf: the marked texts of the pages that yield text; a page
\* whose extraction raises is logged and left out.
RECURSIVE PdfParts(_, _)
PdfParts(pages, page_num) ==
    IF page_num > Len(pages) THEN <<>>
    ELSE (IF pages[page_num] = "text"
          THEN <<<<"--- Pagina ", page_num, " ---\n", "text of page", page_num>>>>
          ELSE <<>>)
         \o PdfParts(pages, page_num + 1)

\* Mutant of ExtractFromLibrary: the pages are numbered after the broken ones
\* are left out.
ExtractFromLibrary_Renumbered(ext, lib) ==
    IF ext = <<".", "p", "d", "f">>
    THEN Join(PdfParts(SelectSeq(lib.pages, LAMBDA k : k # "broken"), 1))
    ELSE IF ext \in {<<".", "d", "o", "c", "x">>, <<".", "d", "o", "c">>}
    THEN <<"paragraphs and tables">>
    ELSE <<"slides">>

\* _extract_from_pdf / _extract_from_docx / _extract_from_pptx on a file that opens
ExtractFromLibrary(ext, lib) ==
    IF ext = <<".", "p", "d", "f">> THEN Join(PdfParts(lib.pages, 1))
    ELSE IF ext \in {<<".", "d", "o", "c", "x">>, <<".", "d", "o", "c">>}
    THEN <<"paragraphs and tables">>
    ELSE <<"slides">>

\* The keys metadata.update adds before the reading of the format's metadata fails.
FormatMetadata(ext, lib) ==
    IF ext = <<".", "t", "x", "t">> \/ lib.meta_fail = "open" THEN {}
    ELSE IF ext = <<".", "p", "d", "f">>
    THEN {"num_pages", "is_encrypted"}
            \cup (IF lib.meta_fail = "none" THEN {"pdf_metadata"} ELSE {})
    ELSE IF ext \in {<<".", "d", "o", "c", "x">>, <<".", "d", "o", "c">>}
    THEN {"num_paragraphs", "num_tables"}
            \cup (IF lib.meta_fail = "none" THEN {"docx_metadata"} ELSE {})
    ELSE {"num_slides"}

\* _extract_metadata
Metadata(file_name, ext, b, lib) ==
    [file_name |-> file_name, file_extension |-> ext, file_size_bytes |-> Len(b),
     file_size_mb |-> (Len(b) * 100 + 524288) \div 1048576,
     format |-> FormatMetadata(ext, lib)]

ProcessedDocument(c, m, file_name, b, ext) ==
    [content |-> c, metadata |-> m, file_name |-> file_name, file_size |-> Len(b),
     file_type |-> ext]

ProcNone == [status |-> "none", error |-> None, document |-> None]
ProcReturned(d) == [status |-> "returned", error |-> None, document |-> d]
ProcRaised(e) == [status |-> "raised", error |-> e, document |-> None]

ProcCall(n, b, l) ==
    [pc |-> "start", file_name |-> n, file_content |-> b, lib |-> l,
     file_extension |-> None, tried |-> <<>>, content |-> None, result |-> ProcNone]

ProcessInit ==
    /\ proc \in UNION {{ProcCall(n, b, l) : b \in BytesFor(_get_file_extension(n)),
                                           l \in LibrariesFor(_get_file_extension(n))} :
                        n \in ProcNames}
    /\ procLog = <<>>

\* Mutant of ProcRaise: the handler returns instead of raising.
ProcRaise_Swallowed(e) ==
    proc' = [proc EXCEPT !.pc = "done", !.result = ProcReturned(None)]

\* A raise inside process_file: the handler, where there is one, logs and re-raises.
ProcRaise(e) ==
    proc' = [proc EXCEPT !.pc = "done", !.result = ProcRaised(e)]

\* Mutant of ProcStart: the extension is compared as it is written.
ProcStart_CaseSensitive ==
    /\ proc.pc = "start"
    /\ LET file_extension == <<".">> \o LastSegment(proc.file_name) IN
       IF file_extension \notin SUPPORTED_EXTENSIONS
       THEN ProcRaise("ValueError")
       ELSE proc' = [proc EXCEPT !.pc = "extract_text",
                                 !.file_extension = file_extension]
    /\ UNCHANGED procLog
    /\ UNCHANGED otherThanProcess

\* process_file up to the try block: the extension and the supported set.
ProcStart ==
    /\ proc.pc = "start"
    /\ LET file_extension == _get_file_extension(proc.file_name) IN
       IF file_extension \notin SUPPORTED_EXTENSIONS
       THEN ProcRaise("ValueError")
       ELSE proc' = [proc EXCEPT !.pc = "extract_text",
                                 !.file_extension = file_extension]
    /\ UNCHANGED procLog
    /\ UNCHANGED otherThanProcess

\* _extract_text: the dispatch on the extension and the library formats.
ProcExtractText ==
    /\ proc.pc = "extract_text"
    /\ procLog' = Append(procLog, "_extract_text")
    /\ IF proc.file_extension = <<".", "t", "x", "t">>
       THEN proc' = [proc EXCEPT !.pc = "decode"]
       ELSE IF ~proc.lib.open
       THEN ProcRaise("ValueError")
       ELSE proc' = [proc EXCEPT !.pc = "extract_metadata",
                                 !.content = ExtractFromLibrary(proc.file_extension,
                                                                proc.lib)]
    /\ UNCHANGED otherThanProcess

\* Mutant of ProcDecode: Latin-1 is tried before UTF-8.
ProcDecode_Latin1First ==
    /\ proc.pc = "decode"
    /\ LET encoding == <<"latin-1", "utf-8", "cp1252">>[Len(proc.tried) + 1]
           r == Decode(encoding, proc.file_content)
       IN /\ procLog' = Append(procLog, encoding)
          /\ IF r.ok
             THEN proc' = [proc EXCEPT !.pc = "extract_metadata",
                                       !.tried = Append(@, encoding),
                                       !.content = r.text]
             ELSE IF Len(proc.tried) + 1 = Len(encodings)
             THEN ProcRaise("ValueError")
             ELSE proc' = [proc EXCEPT !.tried = Append(@, encoding)]
    /\ UNCHANGED otherThanProcess

\* _extract_from_txt: one turn of the loop over the encodings.
ProcDecode ==
    /\ proc.pc = "decode"
    /\ LET encoding == encodings[Len(proc.tried) + 1]
           r == Decode(encoding, proc.file_content)
       IN /\ procLog' = Append(procLog, encoding)
          /\ IF r.ok
             THEN proc' = [proc EXCEPT !.pc = "extract_metadata",
                                       !.tried = Append(@, encoding),
                                       !.content = r.text]
             ELSE IF Len(proc.tried) + 1 = Len(encodings)
             THEN ProcRaise("ValueError")
             ELSE proc' = [proc EXCEPT !.tried = Append(@, encoding)]
    /\ UNCHANGED otherThanProcess

\* _extract_metadata, the construction of the document and the return.
ProcMetadata ==
    /\ proc.pc = "extract_metadata"
    /\ procLog' = Append(procLog, "_extract_metadata")
    /\ proc' = [proc EXCEPT
                  !.pc = "done",
                  !.result = ProcReturned(ProcessedDocument(
                                 proc.content,
                                 Metadata(proc.file_name, proc.file_extension,
                                          proc.file_content, proc.lib),
                                 proc.file_name, proc.file_content,
                                 proc.file_extension))]
    /\ UNCHANGED otherThanProcess

ProcessNext == ProcStart \/ ProcExtractText \/ ProcDecode \/ ProcMetadata

ProcessSpecInit ==
    /\ ProcessInit /\ SchedIdle /\ GatewayIdle /\ PromptIdle /\ InvokeIdle
    /\ ProviderIdle /\ SinkIdle
    /\ LaterIdle

ProcessSpec == ProcessSpecInit /\ [][ProcessNext]_vars

(***************************************************************************)
(* The three single-item operations side by side: one call of ingest_file  *)
(* (or of another operation of Part 1), of save_file or of process_file.   *)
(***************************************************************************)
ItemSpecInit ==
    /\ \/ /\ SchedInit /\ GatewayIdle /\ PromptIdle /\ InvokeIdle /\ ProviderIdle
          /\ SinkIdle /\ ProcessIdle
       \/ /\ SinkInit /\ SchedIdle /\ GatewayIdle /\ PromptIdle /\ InvokeIdle
          /\ ProviderIdle /\ ProcessIdle
       \/ /\ ProcessInit /\ SchedIdle /\ GatewayIdle /\ PromptIdle /\ InvokeIdle
          /\ ProviderIdle /\ SinkIdle
    /\ LaterIdle

ItemNext == SchedNext \/ SinkNext \/ ProcessNext

ItemSpec == ItemSpecInit /\ [][ItemNext]_vars

(***************************************************************************)
(* Claims about process_file and about the single-item operations.         *)
(***************************************************************************)
TXT == <<".", "t", "x", "t">>

AllEncodingsFail ==
    /\ ~Utf8Decode(proc.file_content).ok
    /\ ~Latin1Decode(proc.file_content).ok
    /\ ~Cp1252Decode(proc.file_content).ok

\* C17: the encodings a text extraction has tried are an initial part of
\* UTF-8, Latin-1, Windows-1252; each one but the last failed on the bytes;
\* once one has decoded them its result is the content and no further one is
\* tried; the extraction raises only after all three failed and returns when
\* one does not fail; bytes that UTF-8 rejects are decoded by the second
\* attempt, each byte as its Latin-1 character.
C17_EncodingsInOrderFirstSuccess ==
    LET tried == proc.tried
        n == Len(tried)
    IN
    /\ tried = SubSeq(<<"utf-8", "latin-1", "cp1252">>, 1, n)
    /\ \A k \in 1..(n - 1) : ~Decode(tried[k], proc.file_content).ok
    /\ (n > 0 /\ (proc.pc = "extract_metadata" \/ proc.result.status = "returned")) =>
          /\ Decode(tried[n], proc.file_content).ok
          /\ proc.content = Decode(tried[n], proc.file_content).text
    /\ (proc.pc = "done" /\ n > 0) =>
          /\ proc.result.status = "raised" <=> AllEncodingsFail
          /\ proc.result.status = "raised" =>
                proc.result.error = "ValueError" /\ n = 3
          /\ proc.result.status = "returned" =>
                proc.result.document.content = proc.content
          /\ ~Utf8Decode(proc.file_content).ok =>
                /\ proc.result.status = "returned"
                /\ tried = <<"utf-8", "latin-1">>
                /\ proc.result.document.content = proc.file_content

\* The one byte 0xE9 was decoded by the second attempt as U+00E9.
C17_Witness ==
    /\ proc.pc = "done"
    /\ proc.file_content = <<233>>
    /\ proc.tried = <<"utf-8", "latin-1">>
    /\ proc.result.status = "returned"
    /\ proc.result.document.content = <<233>>

Supported(file_name) == _get_file_extension(file_name) \in SUPPORTED_EXTENSIONS

\* C16, as stated: process_file returns a document if and only if the
\* lower-cased extension of the name is one of the six; any other name fails
\* with ValueError before an extraction step; a returned document's
\* file_type is that extension.
C16_ReturnsIffSupported ==
    /\ ~Supported(proc.file_name) => procLog = <<>>
    /\ proc.pc = "done" =>
          /\ proc.result.status = "returned" <=> Supported(proc.file_name)
          /\ ~Supported(proc.file_name) => proc.result = ProcRaised("ValueError")
          /\ proc.result.status = "returned" =>
                proc.result.document.file_type = _get_file_extension(proc.file_name)

TextExtractionFails ==
    IF _get_file_extension(proc.file_name) = TXT THEN AllEncodingsFail ELSE ~proc.lib.open

\* C16, amended: process_file returns a document only if the lower-cased
\* extension of the name is one of the six, and then returns unless the
\* text extraction fails, which ends the call with ValueError before the
\* metadata step; any other name fails with ValueError before an extraction
\* step; a returned document's file_type is that extension.
C16_ReturnsOnlyIfSupported ==
    /\ ~Supported(proc.file_name) => procLog = <<>>
    /\ proc.pc = "done" =>
          /\ proc.result.status = "returned"
                <=> (Supported(proc.file_name) /\ ~TextExtractionFails)
          /\ proc.result.status # "returned" =>
                /\ proc.result = ProcRaised("ValueError")
                /\ \A k \in 1..Len(procLog) : procLog[k] # "_extract_metadata"
          /\ proc.result.status = "returned" =>
                /\ proc.result.document.file_type = _get_file_extension(proc.file_name)
                /\ proc.result.document.file_type \in SUPPORTED_EXTENSIONS

\* "a.Pdf" was processed into a document of type ".pdf".
C16_Witness ==
    /\ proc.pc = "done"
    /\ proc.file_name = <<"a", ".", "P", "d", "f">>
    /\ proc.result.status = "returned"
    /\ proc.result.document.file_type = <<".", "p", "d", "f">>

\* The failures a finished ingest_file call has met.
IngestFileFailure ==
    /\ op.kind = "ingest_file"
    /\ \/ op.target = "upload" /\ (op.contents = <<>> \/ op.names = <<>>)
       \/ op.target \in PathSources /\ (op.path = None \/ ~exists[1])
       \/ op.target \in {"s3", "azure"} /\ (op.container = None \/ op.key = None)
       \/ op.target = "s3" /\ ~AwsCredentials(settings)
       \/ op.target = "azure" /\ ~settings.azure_storage_connection_string
       \/ \E i \in DOMAIN item : item[i].st = "failed"

\* The failures a finished save_file call has met.
SaveFileFailure ==
    \/ RequiredParameterMissing
    \/ sink.args.destination = "s3" /\ S3CredentialsAbsent
    \/ sink.args.destination = "azure" /\ sink.env.azure_storage_connection_string = None
    \/ sink.answer \notin {None, "ok"}
    \/ sinkLog # <<>> /\ sinkLog[Len(sinkLog)].ev \notin {"write", "put_object", "upload_blob"}

\* The failures a finished process_file call has met.
ProcessFileFailure == ~Supported(proc.file_name) \/ TextExtractionFails

\* C15: an ingest_file, save_file or process_file call that met a failure
\* (a missing parameter, a missing source, missing credentials, an
\* unsupported format, a failed decoding, parsing, write or SDK call) has,
\* when it ends, raised an error and returned no value.
C15_NoFailureSwallowed ==
    /\ (pc = "done" /\ IngestFileFailure) =>
          outcome.status = "raised" /\ outcome.error # None /\ outcome.value = <<>>
    /\ (sink.pc = "done" /\ SaveFileFailure) =>
          sink.result.status = "raised" /\ sink.result.error # None
             /\ sink.result.location = <<>>
    /\ (proc.pc = "done" /\ ProcessFileFailure) =>
          proc.result.status = "raised" /\ proc.result.error # None
             /\ proc.result.document = None

\* A process_file call on a PDF that does not open has ended in its handler.
C15_Witness ==
    /\ proc.pc = "done"
    /\ _get_file_extension(proc.file_name) = <<".", "p", "d", "f">>
    /\ ~proc.lib.open
    /\ procLog = <<"_extract_text">>
    /\ proc.result = ProcRaised("ValueError")

PDF == <<".", "p", "d", "f">>

\* C25: when the text extraction succeeded and the reading of the format's
\* metadata fails at any step, process_file returns a document whose
\* metadata has the four base entries and no entry of the format.
C25_MetadataFailureDegradesToBase ==
    (/\ proc.pc = "done"
     /\ Supported(proc.file_name) /\ ~TextExtractionFails
     /\ _get_file_extension(proc.file_name) # TXT
     /\ proc.lib.meta_fail # "none") =>
        /\ proc.result.status = "returned"
        /\ proc.result.document.metadata.file_name = proc.file_name
        /\ proc.result.document.metadata.file_extension
              = _get_file_extension(proc.file_name)
        /\ proc.result.document.metadata.file_size_bytes = Len(proc.file_content)
        /\ proc.result.document.metadata.format = {}

\* The marked texts of the pages up to page n that yield text, page by page.
RECURSIVE MarkedPages(_, _)
MarkedPages(pages, n) ==
    IF n = 0 THEN <<>>
    ELSE LET before == MarkedPages(pages, n - 1) IN
         IF pages[n] # "text" THEN before
         ELSE (IF before = <<>> THEN <<>> ELSE before \o <<"\n\n">>)
              \o <<"--- Pagina ", n, " ---\n", "text of page", n>>

C28_TextExtractionTotal ==
    _get_file_extension(proc.file_name) = TXT =>
        /\ \A k \in 1..Len(proc.tried) : proc.tried[k] # "cp1252"
        /\ Len(proc.tried) <= 2
        /\ proc.result.status # "raised"
        /\ proc.pc = "done" =>
              /\ proc.result.status = "returned"
              /\ Len(proc.result.document.content) >= 0

\* Bytes neither UTF-8 nor Windows-1252 decodes were returned as a string.
C28_Witness ==
    /\ proc.pc = "done"
    /\ _get_file_extension(proc.file_name) = TXT
    /\ proc.file_content = <<129, 233>>
    /\ proc.tried = <<"utf-8", "latin-1">>
    /\ proc.result.status = "returned"
    /\ proc.result.document.content = <<129, 233>>

(***************************************************************************)
(* Part 8.  BedrockProvider._get_bedrock_client.  Each generate_response   *)
(* call on the provider runs _invoke_bedrock on a worker thread of the     *)
(* executor; a thread switch can separate the test of _bedrock_client, the *)
(* construction of the client, the read of the attribute and the call.     *)
(***************************************************************************)
MaxWorkers == 2
MaxClientCalls == 3

Workers == 1..MaxWorkers

EarlierIdle ==
    /\ SchedIdle /\ GatewayIdle /\ PromptIdle /\ InvokeIdle /\ ProviderIdle
    /\ SinkIdle /\ ProcessIdle

\* A provider just constructed: _bedrock_client is None (0; client k is the
\* k-th one boto3.client returned).
BedrockInit ==
    bedrock = [pc |-> "shared", _bedrock_client |-> 0, built |-> 0, started |-> 0,
               used |-> <<>>,
               w |-> [t \in Workers |-> [pc |-> "free", client |-> 0]]]

\* generate_response passes the credentials check and submits _invoke_bedrock.
BcSubmit(t) ==
    /\ bedrock.pc = "shared"
    /\ bedrock.w[t].pc \in {"free", "done"}
    /\ bedrock.started < MaxClientCalls
    /\ bedrock' = [bedrock EXCEPT !.started = @ + 1,
                                  !.w[t] = [pc |-> "check", client |-> 0]]
    /\ UNCHANGED otherThanBedrock

\* if self._bedrock_client is None
BcCheck(t) ==
    /\ bedrock.pc = "shared"
    /\ bedrock.w[t].pc = "check"
    /\ bedrock' = [bedrock EXCEPT !.w[t].pc = IF bedrock._bedrock_client = 0
                                              THEN "create" ELSE "return"]
    /\ UNCHANGED otherThanBedrock

\* self._bedrock_client = boto3.client(...): client number built + 1
BcCreate(t) ==
    /\ bedrock.pc = "shared"
    /\ bedrock.w[t].pc = "create"
    /\ bedrock' = [bedrock EXCEPT !.built = @ + 1,
                                  !._bedrock_client = bedrock.built + 1,
                                  !.w[t].pc = "return"]
    /\ UNCHANGED otherThanBedrock

\* return self._bedrock_client
BcReturn(t) ==
    /\ bedrock.pc = "shared"
    /\ bedrock.w[t].pc = "return"
    /\ bedrock' = [bedrock EXCEPT !.w[t] = [pc |-> "invoke",
                                            client |-> bedrock._bedrock_client]]
    /\ UNCHANGED otherThanBedrock

\* client.invoke_model(...) on the client the worker was given
BcInvoke(t) ==
    /\ bedrock.pc = "shared"
    /\ bedrock.w[t].pc = "invoke"
    /\ bedrock' = [bedrock EXCEPT !.used = Append(@, bedrock.w[t].client),
                                  !.w[t].pc = "done"]
    /\ UNCHANGED otherThanBedrock

BcSubmitSome == \E t \in Workers : BcSubmit(t)
BcCheckSome == \E t \in Workers : BcCheck(t)
BcCreateSome == \E t \in Workers : BcCreate(t)
BcReturnSome == \E t \in Workers : BcReturn(t)
BcInvokeSome == \E t \in Workers : BcInvoke(t)

BedrockNext == BcSubmitSome \/ BcCheckSome \/ BcCreateSome \/ BcReturnSome \/ BcInvokeSome

BedrockSpecInit ==
    /\ BedrockInit /\ EarlierIdle /\ FormatIdle /\ ExtractorIdle /\ RegistryIdle

BedrockSpec == BedrockSpecInit /\ [][BedrockNext]_vars

\* C29: whatever the interleaving of the workers, the provider builds at
\* most one client, and every invoke_model call is made on that client.
C29_ClientBuiltAtMostOnce ==
    bedrock.pc = "shared" =>
        /\ bedrock.built <= 1
        /\ \A k \in 1..Len(bedrock.used) : bedrock.used[k] = 1

(***************************************************************************)
(* Part 9.  OutputFormatterService.format_output.  Strings are sequences   *)
(* of code points; a JSON text is the sequence of its tokens, a string     *)
(* token holding the characters between its quotes.                        *)
(***************************************************************************)
\* Python values: str, int, float (in tenths), bool, None, dict (its items in order)
JStr(str) == [t |-> "str", v |-> str]
JInt(n) == [t |-> "int", v |-> n]
JFloat(tenths) == [t |-> "float", v |-> tenths]
JBool(b) == [t |-> "bool", v |-> b]
JNull == [t |-> "null", v |-> 0]
JDict(items) == [t |-> "dict", v |-> items]

\* The keys and texts of the documents, as code points
S_file_name == <<102, 105, 108, 101, 95, 110, 97, 109, 101>>
S_file_type == <<102, 105, 108, 101, 95, 116, 121, 112, 101>>
S_file_size == <<102, 105, 108, 101, 95, 115, 105, 122, 101>>
S_processed_at == <<112, 114, 111, 99, 101, 115, 115, 101, 100, 95, 97, 116>>
S_content == <<99, 111, 110, 116, 101, 110, 116>>
S_metadata == <<109, 101, 116, 97, 100, 97, 116, 97>>
S_file_size_bytes == <<102, 105, 108, 101, 95, 115, 105, 122, 101, 95, 98, 121, 116, 101, 115>>
S_file_size_mb == <<102, 105, 108, 101, 95, 115, 105, 122, 101, 95, 109, 98>>
S_num_pages == <<110, 117, 109, 95, 112, 97, 103, 101, 115>>
S_is_encrypted == <<105, 115, 95, 101, 110, 99, 114, 121, 112, 116, 101, 100>>
S_pdf_metadata == <<112, 100, 102, 95, 109, 101, 116, 97, 100, 97, 116, 97>>
S_slash_Producer == <<47, 80, 114, 111, 100, 117, 99, 101, 114>>
S_docx_metadata == <<100, 111, 99, 120, 95, 109, 101, 116, 97, 100, 97, 116, 97>>
S_title == <<116, 105, 116, 108, 101>>
S_author == <<97, 117, 116, 104, 111, 114>>
S_generation_result == <<103, 101, 110, 101, 114, 97, 116, 105, 111, 110, 95, 114, 101, 115, 117, 108, 116>>
S_a_pdf == <<97, 46, 112, 100, 102>>
S_dot_pdf == <<46, 112, 100, 102>>
S_isoformat == <<50, 48, 50, 52, 45, 48, 49, 45, 48, 49, 84, 48, 48, 58, 48, 48, 58, 48, 48>>
S_None == <<78, 111, 110, 101>>
S_True == <<84, 114, 117, 101>>
S_False == <<70, 97, 108, 115, 101>>

RECURSIVE Digits(_)
\* str(n) for n >= 0
Digits(n) == IF n < 10 THEN <<48 + n>> ELSE Digits(n \div 10) \o <<48 + (n % 10)>>

RECURSIVE DigitsValue(_)
\* int(digits)
DigitsValue(d) ==
    IF d = <<>> THEN 0 ELSE 10 * DigitsValue(SubSeq(d, 1, Len(d) - 1)) + (d[Len(d)] - 48)

HexDigit(n) == IF n < 10 THEN 48 + n ELSE 87 + n
HexValue(d) == IF d \in 48..57 THEN d - 48 ELSE IF d \in 97..102 THEN d - 87 ELSE d - 55

\* Mutant of JsonEscapeChar: a character outside ASCII is written as "?".
JsonEscapeChar_AsciiOnly(c) ==
    CASE c = 34 -> <<92, 34>>
      [] c = 92 -> <<92, 92>>
      [] c = 10 -> <<92, 110>>
      [] c = 13 -> <<92, 114>>
      [] c = 9 -> <<92, 116>>
      [] c = 8 -> <<92, 98>>
      [] c = 12 -> <<92, 102>>
      [] c < 32 /\ c \notin {8, 9, 10, 12, 13} ->
            <<92, 117, 48, 48, HexDigit(c \div 16), HexDigit(c % 16)>>
      [] c > 127 -> <<63>>
      [] OTHER -> <<c>>

\* json.dumps(..., ensure_ascii=False) on one character of a string
JsonEscapeChar(c) ==
    CASE c = 34 -> <<92, 34>>
      [] c = 92 -> <<92, 92>>
      [] c = 10 -> <<92, 110>>
      [] c = 13 -> <<92, 114>>
      [] c = 9 -> <<92, 116>>
      [] c = 8 -> <<92, 98>>
      [] c = 12 -> <<92, 102>>
      [] c < 32 /\ c \notin {8, 9, 10, 12, 13} ->
            <<92, 117, 48, 48, HexDigit(c \div 16), HexDigit(c % 16)>>
      [] OTHER -> <<c>>

RECURSIVE JsonEscape(_)
JsonEscape(str) ==
    IF str = <<>> THEN <<>> ELSE JsonEscapeChar(Head(str)) \o JsonEscape(Tail(str))

RECURSIVE JsonUnescape(_)
\* json.loads on the characters between the quotes of a string
JsonUnescape(e) ==
    IF e = <<>> THEN <<>>
    ELSE IF e[1] # 92 THEN <<e[1]>> \o JsonUnescape(Tail(e))
    ELSE IF e[2] = 117
    THEN <<4096 * HexValue(e[3]) + 256 * HexValue(e[4]) + 16 * HexValue(e[5])
             + HexValue(e[6])>> \o JsonUnescape(SubSeq(e, 7, Len(e)))
    ELSE <<CASE e[2] = 98 -> 8
             [] e[2] = 102 -> 12
             [] e[2] = 110 -> 10
             [] e[2] = 114 -> 13
             [] e[2] = 116 -> 9
             [] OTHER -> e[2]>> \o JsonUnescape(SubSeq(e, 3, Len(e)))

Tok(k, str) == [k |-> k, s |-> str]

RECURSIVE JsonTokens(_)
RECURSIVE MemberTokens(_)
\* json.dumps(value, ensure_ascii=False, indent=2), token by token
JsonTokens(val) ==
    CASE val.t = "str" -> <<Tok("string", JsonEscape(val.v))>>
      [] val.t = "int" -> <<Tok("number", Digits(val.v))>>
      [] val.t = "float" ->
            <<Tok("number", Digits(val.v \div 10) \o <<46>> \o Digits(val.v % 10))>>
      [] val.t = "bool" -> <<Tok(IF val.v THEN "true" ELSE "false", <<>>)>>
      [] val.t = "null" -> <<Tok("null", <<>>)>>
      [] val.t = "dict" -> <<Tok("{", <<>>)>> \o MemberTokens(val.v) \o <<Tok("}", <<>>)>>

MemberTokens(items) ==
    IF items = <<>> THEN <<>>
    ELSE <<Tok("string", JsonEscape(items[1][1])), Tok(":", <<>>)>>
         \o JsonTokens(items[1][2])
         \o (IF Len(items) > 1 THEN <<Tok(",", <<>>)>> ELSE <<>>)
         \o MemberTokens(Tail(items))

RECURSIVE ParseValue(_, _)
RECURSIVE ParseMembers(_, _, _)
\* json.loads from token i on: the value and the index after it
ParseValue(toks, i) ==
    CASE toks[i].k = "string" -> [v |-> JStr(JsonUnescape(toks[i].s)), i |-> i + 1]
      [] toks[i].k = "number" ->
            IF \E k \in 1..Len(toks[i].s) : toks[i].s[k] = 46
            THEN LET dot == CHOOSE k \in 1..Len(toks[i].s) : toks[i].s[k] = 46 IN
                 [v |-> JFloat(10 * DigitsValue(SubSeq(toks[i].s, 1, dot - 1))
                               + DigitsValue(SubSeq(toks[i].s, dot + 1, Len(toks[i].s)))),
                  i |-> i + 1]
            ELSE [v |-> JInt(DigitsValue(toks[i].s)), i |-> i + 1]
      [] toks[i].k = "true" -> [v |-> JBool(TRUE), i |-> i + 1]
      [] toks[i].k = "false" -> [v |-> JBool(FALSE), i |-> i + 1]
      [] toks[i].k = "null" -> [v |-> JNull, i |-> i + 1]
      [] toks[i].k = "{" -> ParseMembers(toks, i + 1, <<>>)

ParseMembers(toks, i, acc) ==
    IF toks[i].k = "}" THEN [v |-> JDict(acc), i |-> i + 1]
    ELSE LET r == ParseValue(toks, i + 2)
             j == IF toks[r.i].k = "," THEN r.i + 1 ELSE r.i
         IN ParseMembers(toks, j, Append(acc, <<JsonUnescape(toks[i].s), r.v>>))

\* json.loads(text)
JsonLoads(toks) == ParseValue(toks, 1).v

\* dict[key] on a parsed object
Item(obj, key) == obj.v[CHOOSE k \in 1..Len(obj.v) : obj.v[k][1] = key][2]

\* str(value) of a leaf value
Str(val) ==
    CASE val.t = "str" -> val.v
      [] val.t = "int" -> Digits(val.v)
      [] val.t = "float" -> Digits(val.v \div 10) \o <<46>> \o Digits(val.v % 10)
      [] val.t = "bool" -> IF val.v THEN S_True ELSE S_False
      [] val.t = "null" -> S_None

\* What the XML parser (minidom.parseString) accepts as a name and as a character
XmlNameStart(c) == c \in (65..90) \cup (97..122) \cup {95, 58} \/ (c >= 192 /\ c \notin {215, 247})
XmlNameChar(c) == XmlNameStart(c) \/ c \in (48..57) \cup {45, 46, 183}
XmlName(name) ==
    /\ name # <<>>
    /\ XmlNameStart(name[1])
    /\ \A k \in 2..Len(name) : XmlNameChar(name[k])
XmlChar(c) == c \in {9, 10, 13} \/ (c >= 32 /\ c <= 55295) \/ c >= 57344
XmlText(str) == \A k \in 1..Len(str) : XmlChar(str[k])

RECURSIVE XmlWellFormed(_)
\* Whether the text _dict_to_xml and tostring write for a mapping parses again
XmlWellFormed(items) ==
    \A k \in 1..Len(items) :
        /\ XmlName(items[k][1])
        /\ IF items[k][2].t = "dict" THEN XmlWellFormed(items[k][2].v)
           ELSE XmlText(Str(items[k][2]))

Document(c, m) ==
    [content |-> c, metadata |-> m, file_name |-> S_a_pdf, file_size |-> 12,
     file_type |-> S_dot_pdf, processed_at |-> S_isoformat]

\* "", "A", "é", a quote and a backslash, a backslash and "n", a line feed
\* and a tab, a form feed, U+0001, "€"
FmtContents ==
    {<<>>, <<65>>, <<233>>, <<34, 92>>, <<92, 110>>, <<10, 9>>, <<12>>, <<1>>, <<8364>>}

\* Metadata as process_file and the caller build it
FmtMetadata ==
    {JDict(<<>>),
     JDict(<<<<S_file_name, JStr(S_a_pdf)>>, <<S_file_size_bytes, JInt(12)>>,
             <<S_file_size_mb, JFloat(0)>>>>),
     JDict(<<<<S_num_pages, JInt(2)>>, <<S_is_encrypted, JBool(FALSE)>>>>),
     JDict(<<<<S_num_pages, JInt(10)>>, <<S_is_encrypted, JBool(TRUE)>>,
             <<S_pdf_metadata, JDict(<<<<S_slash_Producer, JStr(<<233, 34>>)>>>>)>>>>),
     JDict(<<<<S_docx_metadata, JDict(<<<<S_title, JNull>>,
                                        <<S_author, JStr(<<65>>)>>>>)>>>>),
     JDict(<<<<S_generation_result, JStr(<<65, 10, 92>>)>>>>)}

FmtNames ==
    {<<"j", "s", "o", "n">>, <<"J", "S", "O", "N">>, <<"x", "m", "l">>, <<"X", "m", "l">>,
     <<"c", "s", "v">>, <<"t", "x", "t">>, <<"T", "X", "T">>, <<"p", "d", "f">>,
     <<"y", "a", "m", "l">>, <<"j", "s", "o", "n", "l">>, <<>>}

FmtNone == [status |-> "none", error |-> None, text |-> <<>>]
FmtReturned(text) == [status |-> "returned", error |-> None, text |-> text]
FmtRaised(e) == [status |-> "raised", error |-> e, text |-> <<>>]

_format_as_json(document) ==
    FmtReturned(JsonTokens(JDict(<<
        <<S_file_name, JStr(document.file_name)>>,
        <<S_file_type, JStr(document.file_type)>>,
        <<S_file_size, JInt(document.file_size)>>,
        <<S_processed_at, JStr(document.processed_at)>>,
        <<S_content, JStr(document.content)>>,
        <<S_metadata, document.metadata>>>>)))

\* The XML text, the CSV text and the plain text are kept as one token each.
_format_as_xml(document) ==
    IF /\ XmlText(document.file_name) /\ XmlText(document.file_type)
       /\ XmlText(document.content)
       /\ XmlWellFormed(document.metadata.v)
    THEN FmtReturned(<<Tok("xml text", document.content)>>)
    ELSE FmtRaised("ExpatError")

_format_as_csv(document) == FmtReturned(<<Tok("csv text", document.content)>>)

_format_as_txt(document) == FmtReturned(<<Tok("plain text", document.content)>>)

FormatInit ==
    fmt \in {[pc |-> "start", document |-> Document(c, m), original |-> Document(c, m),
              output_format |-> n, result |-> FmtNone] :
                c \in FmtContents, m \in FmtMetadata, n \in FmtNames}

\* format_output
FormatOutput ==
    /\ fmt.pc = "start"
    /\ LET output_format == Lower(fmt.output_format) IN
       fmt' = [fmt EXCEPT
                 !.pc = "done",
                 !.result =
                    IF output_format = <<"j", "s", "o", "n">>
                    THEN _format_as_json(fmt.document)
                    ELSE IF output_format = <<"x", "m", "l">>
                    THEN _format_as_xml(fmt.document)
                    ELSE IF output_format = <<"c", "s", "v">>
                    THEN _format_as_csv(fmt.document)
                    ELSE IF output_format = <<"t", "x", "t">>
                    THEN _format_as_txt(fmt.document)
                    ELSE FmtRaised("ValueError")]
    /\ UNCHANGED otherThanFormat

FormatNext == FormatOutput

FormatSpecInit ==
    /\ FormatInit /\ EarlierIdle /\ BedrockIdle /\ ExtractorIdle /\ RegistryIdle

FormatSpec == FormatSpecInit /\ [][FormatNext]_vars

FormatNames ==
    {<<"j", "s", "o", "n">>, <<"x", "m", "l">>, <<"c", "s", "v">>, <<"t", "x", "t">>}

\* C21: format_output returns a string exactly when the format name is one
\* of json, xml, csv and txt; for every other name it raises ValueError;
\* when it raises there is no output, and the document is left as it was.
C21_FormatsExactlyTheFour ==
    fmt.pc = "done" =>
        /\ fmt.result.status = "returned" <=> fmt.output_format \in FormatNames
        /\ fmt.output_format \notin FormatNames => fmt.result = FmtRaised("ValueError")
        /\ fmt.result.status = "raised" => fmt.result.text = <<>>
        /\ fmt.document = fmt.original

\* C22: the text format_output returns for "json" parses to an object whose
\* content and metadata equal the document's, character for character and
\* entry for entry, nested mappings included.
C22_JsonRoundTrip ==
    (fmt.pc = "done" /\ Lower(fmt.output_format) = <<"j", "s", "o", "n">>) =>
        /\ fmt.result.status = "returned"
        /\ Item(JsonLoads(fmt.result.text), S_content) = JStr(fmt.original.content)
        /\ Item(JsonLoads(fmt.result.text), S_metadata) = fmt.original.metadata

\* A document with a backslash in its content and a nested, non-ASCII
\* metadata value was formatted as JSON.
C22_Witness ==
    /\ fmt.pc = "done"
    /\ fmt.output_format = <<"j", "s", "o", "n">>
    /\ fmt.original.content = <<92, 110>>
    /\ Len(fmt.original.metadata.v) = 3
    /\ fmt.original.metadata.v[3][1] = S_pdf_metadata
    /\ fmt.result.status = "returned"
    /\ Item(Item(JsonLoads(fmt.result.text), S_metadata), S_pdf_metadata)
          = JDict(<<<<S_slash_Producer, JStr(<<233, 34>>)>>>>)

(***************************************************************************)
(* Part 10.  InformationExtractor: its construction, then extract and      *)
(* extract_with_schema against a chat-completion backend.  A reply is the  *)
(* sequence of its characters.                                             *)
(***************************************************************************)
JList(items) == [t |-> "list", v |-> items]

\* "{'name': 'Jo', 'age': 30}"
R_object ==
    <<123, 34, 110, 97, 109, 101, 34, 58, 32, 34, 74, 111, 34, 44, 32, 34,
      97, 103, 101, 34, 58, 32, 51, 48, 125>>
\* "<fence>json\n{'name': 'Jo'}\n<fence>"
R_fenced_json ==
    <<96, 96, 96, 106, 115, 111, 110, 10, 123, 34, 110, 97, 109, 101, 34, 58,
      32, 34, 74, 111, 34, 125, 10, 96, 96, 96>>
\* "<fence>\n{'a': {'b': null}}\n<fence>"
R_fenced_plain ==
    <<96, 96, 96, 10, 123, 34, 97, 34, 58, 32, 123, 34, 98, 34, 58, 32, 110,
      117, 108, 108, 125, 125, 10, 96, 96, 96>>
\* "Here:\n<fence>json\n{'a': 1}\n<fence>"
R_prose_fenced ==
    <<72, 101, 114, 101, 58, 10, 96, 96, 96, 106, 115, 111, 110, 10, 123, 34,
      97, 34, 58, 32, 49, 125, 10, 96, 96, 96>>
\* "This is not JSON"
R_not_json ==
    <<84, 104, 105, 115, 32, 105, 115, 32, 110, 111, 116, 32, 74, 83, 79, 78>>
\* ""
R_empty ==
    <<>>
\* "{'a': 1} ok"
R_object_prose ==
    <<123, 34, 97, 34, 58, 32, 49, 125, 32, 111, 107>>
\* "<fence>json\n{name}\n<fence>"
R_fenced_invalid ==
    <<96, 96, 96, 106, 115, 111, 110, 10, 123, 110, 97, 109, 101, 125, 10,
      96, 96, 96>>
\* "<fence>json\n[1]\n<fence>"
R_fenced_list ==
    <<96, 96, 96, 106, 115, 111, 110, 10, 91, 49, 93, 10, 96, 96, 96>>
\* "[1]"
R_list ==
    <<91, 49, 93>>
\* "42"
R_number ==
    <<52, 50>>
\* "null"
R_null ==
    <<110, 117, 108, 108>>
\* "<fence>JSON\n{'a': 1}\n<fence>"
R_fenced_JSON ==
    <<96, 96, 96, 74, 83, 79, 78, 10, 123, 34, 97, 34, 58, 32, 49, 125, 10,
      96, 96, 96>>
\* "<fence>\n{x\n<fence>\n<fence>\n{'a': 1}\n<fence>"
R_second_fence ==
    <<96, 96, 96, 10, 123, 120, 10, 96, 96, 96, 10, 96, 96, 96, 10, 123, 34,
      97, 34, 58, 32, 49, 125, 10, 96, 96, 96>>

\* Space, line feed, tab, carriage return
JsonWhitespace == {32, 10, 9, 13}
IsDigit(c) == c \in 48..57

RECURSIVE SkipWhitespace(_, _)
\* The first index from i on that holds no whitespace
SkipWhitespace(s, i) ==
    IF i <= Len(s) /\ s[i] \in JsonWhitespace THEN SkipWhitespace(s, i + 1) ELSE i

\* Whether lit stands in s at index i
StartsWith(s, i, lit) ==
    /\ i + Len(lit) - 1 <= Len(s)
    /\ \A k \in 1..Len(lit) : s[i + k - 1] = lit[k]

DecodeOk(val, i) == [ok |-> TRUE, v |-> val, i |-> i]
DecodeFails == [ok |-> FALSE, v |-> JNull, i |-> 0]

RECURSIVE ScanString(_, _, _)
\* The decoder on the characters after an opening quote: the string and the
\* index after its closing quote (34).  A raw control character ends the
\* parse; of the escapes (92), the ones the replies can hold.
ScanString(s, i, acc) ==
    IF i > Len(s) THEN DecodeFails
    ELSE IF s[i] = 34 THEN DecodeOk(acc, i + 1)
    ELSE IF s[i] < 32 THEN DecodeFails
    ELSE IF s[i] = 92
    THEN IF i + 1 <= Len(s) /\ s[i + 1] \in {34, 92, 47}
         THEN ScanString(s, i + 2, Append(acc, s[i + 1]))
         ELSE IF i + 1 <= Len(s) /\ s[i + 1] = 110
         THEN ScanString(s, i + 2, Append(acc, 10))
         ELSE DecodeFails
    ELSE ScanString(s, i + 1, Append(acc, s[i]))

RECURSIVE ScanNumber(_, _, _)
\* The digits from i on, as an integer, and the index after them
ScanNumber(s, i, acc) ==
    IF i <= Len(s) /\ IsDigit(s[i])
    THEN ScanNumber(s, i + 1, 10 * acc + (s[i] - 48))
    ELSE DecodeOk(JInt(acc), i)

\* dict[key] = val on the items of a dict kept in insertion order
SetItem(items, key, val) ==
    IF \E k \in 1..Len(items) : items[k][1] = key
    THEN [k \in 1..Len(items) |-> IF items[k][1] = key THEN <<key, val>> ELSE items[k]]
    ELSE Append(items, <<key, val>>)

RECURSIVE DecodeValue(_, _)
RECURSIVE DecodeMembers(_, _, _)
RECURSIVE DecodeElements(_, _, _)
\* The JSON decoder on the value that starts at index i
DecodeValue(s, i) ==
    IF i > Len(s) THEN DecodeFails
    ELSE IF s[i] = 123
    THEN LET j == SkipWhitespace(s, i + 1) IN
         IF j <= Len(s) /\ s[j] = 125 THEN DecodeOk(JDict(<<>>), j + 1)
         ELSE DecodeMembers(s, j, <<>>)
    ELSE IF s[i] = 91
    THEN LET j == SkipWhitespace(s, i + 1) IN
         IF j <= Len(s) /\ s[j] = 93 THEN DecodeOk(JList(<<>>), j + 1)
         ELSE DecodeElements(s, j, <<>>)
    ELSE IF s[i] = 34
    THEN LET r == ScanString(s, i + 1, <<>>) IN
         IF r.ok THEN DecodeOk(JStr(r.v), r.i) ELSE DecodeFails
    ELSE IF s[i] = 48 THEN DecodeOk(JInt(0), i + 1)
    ELSE IF IsDigit(s[i]) THEN ScanNumber(s, i, 0)
    ELSE IF StartsWith(s, i, <<110, 117, 108, 108>>) THEN DecodeOk(JNull, i + 4)
    ELSE IF StartsWith(s, i, <<116, 114, 117, 101>>) THEN DecodeOk(JBool(TRUE), i + 4)
    ELSE IF StartsWith(s, i, <<102, 97, 108, 115, 101>>)
    THEN DecodeOk(JBool(FALSE), i + 5)
    ELSE DecodeFails

\* The members of an object from the key at index i on
DecodeMembers(s, i, acc) ==
    IF ~(i <= Len(s) /\ s[i] = 34) THEN DecodeFails
    ELSE LET key == ScanString(s, i + 1, <<>>) IN
         IF ~key.ok THEN DecodeFails
         ELSE LET colon == SkipWhitespace(s, key.i) IN
              IF ~(colon <= Len(s) /\ s[colon] = 58) THEN DecodeFails
              ELSE LET val == DecodeValue(s, SkipWhitespace(s, colon + 1)) IN
                   IF ~val.ok THEN DecodeFails
                   ELSE LET j == SkipWhitespace(s, val.i)
                            items == SetItem(acc, key.v, val.v)
                        IN IF j > Len(s) THEN DecodeFails
                           ELSE IF s[j] = 125 THEN DecodeOk(JDict(items), j + 1)
                           ELSE IF s[j] = 44
                           THEN DecodeMembers(s, SkipWhitespace(s, j + 1), items)
                           ELSE DecodeFails

\* The elements of an array from the value at index i on
DecodeElements(s, i, acc) ==
    LET val == DecodeValue(s, i) IN
    IF ~val.ok THEN DecodeFails
    ELSE LET j == SkipWhitespace(s, val.i) IN
         IF j > Len(s) THEN DecodeFails
         ELSE IF s[j] = 93 THEN DecodeOk(JList(Append(acc, val.v)), j + 1)
         ELSE IF s[j] = 44
         THEN DecodeElements(s, SkipWhitespace(s, j + 1), Append(acc, val.v))
         ELSE DecodeFails

ParseNone == [status |-> "none", v |-> JNull, exc |-> None]
ParseReturned(val) == [status |-> "returned", v |-> val, exc |-> None]
ParseRaised(exc) == [status |-> "raised", v |-> JNull, exc |-> exc]

\* json.loads(text): one value between optional whitespace, or JSONDecodeError;
\* TypeError when the argument is None
json_loads(text) ==
    IF text.t # "str" THEN ParseRaised("TypeError")
    ELSE LET r == DecodeValue(text.v, SkipWhitespace(text.v, 1)) IN
         IF r.ok /\ SkipWhitespace(text.v, r.i) = Len(text.v) + 1
         THEN ParseReturned(r.v)
         ELSE ParseRaised("JSONDecodeError")

\* Three backticks
Fence == <<96, 96, 96>>

\* The head of the fence pattern at index p: three backticks, json or
\* nothing, whitespace, an opening brace.  The index of the brace, or 0
FenceOpens(s, p) ==
    IF ~StartsWith(s, p, Fence) THEN 0
    ELSE LET q == IF StartsWith(s, p + 3, <<106, 115, 111, 110>>) THEN p + 7 ELSE p + 3
             b == SkipWhitespace(s, q)
         IN IF b <= Len(s) /\ s[b] = 123 THEN b ELSE 0

\* The tail of the fence pattern at index e: a closing brace, whitespace,
\* three backticks
FenceCloses(s, e) ==
    /\ e <= Len(s)
    /\ s[e] = 125
    /\ StartsWith(s, SkipWhitespace(s, e + 1), Fence)

\* re.search of the fence pattern in s with re.DOTALL: group 1 of the
\* leftmost match, from its opening brace to the first closing brace that
\* the end of a fence follows, or <<>> when nothing matches
FenceSearch(s) ==
    LET starts == {p \in 1..Len(s) :
                      /\ FenceOpens(s, p) # 0
                      /\ \E e \in (FenceOpens(s, p) + 1)..Len(s) : FenceCloses(s, e)}
    IN IF starts = {} THEN <<>>
       ELSE LET p == CHOOSE x \in starts : \A y \in starts : x <= y
                b == FenceOpens(s, p)
                ends == {e \in (b + 1)..Len(s) : FenceCloses(s, e)}
                e == CHOOSE x \in ends : \A y \in ends : x <= y
            IN SubSeq(s, b, e)

\* Mutant of _parse_json_response: no second attempt on a fenced block.
_parse_json_response_NoFence(raw_response) == json_loads(raw_response)

\* InformationExtractor._parse_json_response
_parse_json_response(raw_response) ==
    LET direct == json_loads(raw_response) IN
    IF direct.status = "returned" \/ direct.exc # "JSONDecodeError" THEN direct
    ELSE LET json_match == FenceSearch(raw_response.v) IN
         IF json_match # <<>> THEN json_loads(JStr(json_match))
         ELSE direct

Replies ==
    {R_object, R_fenced_json, R_fenced_plain, R_prose_fenced, R_not_json, R_empty,
     R_object_prose, R_fenced_invalid, R_fenced_list, R_list, R_number, R_null,
     R_fenced_JSON, R_second_fence}

\* A message content, or a raw_response, that is None
NoContent == [t |-> "None", v |-> <<>>]

\* What chat.completions.create does: raise, answer without a choice, or
\* answer with a first choice whose message content is a text or None
BackendRaises(message) == [kind |-> "raises", message |-> message, content |-> NoContent]
BackendNoChoices == [kind |-> "no_choices", message |-> None, content |-> NoContent]
BackendReplies(text) == [kind |-> "replies", message |-> None, content |-> text]
Backends ==
    {BackendRaises("API Error"), BackendRaises(""), BackendNoChoices,
     BackendReplies(NoContent)} \cup {BackendReplies(JStr(r)) : r \in Replies}

DefaultModel == "gpt-3.5-turbo"
Omitted == "<omitted>"
ApiKeyArgs == {None, "", "test-key"}
ModelArgs == {Omitted, "gpt-4"}
Environs == {None, "", "env-test-key"}
DotenvFiles == {None, "dotenv-key"}

\* OpenAI(api_key=...) and the absence of a client
OpenAI(api_key) == <<"OpenAI", api_key>>
NoClient == <<>>

ExtractionResult(success, data, error, raw_response) ==
    [success |-> success, data |-> data, error |-> error, raw_response |-> raw_response]
NoData == JDict(<<>>)

XtrNone == [status |-> "none", exc |-> None, value |-> ExtractionResult(FALSE, NoData, None, NoContent)]
XtrReturned(res) == [status |-> "returned", exc |-> None, value |-> res]
XtrRaised(exc) == [status |-> "raised", exc |-> exc, value |-> ExtractionResult(FALSE, NoData, None, NoContent)]

\* The states before InformationExtractor(api_key, model) runs, with the
\* process environment and the .env file it will find
ExtractorInit ==
    xtr \in {[pc |-> "new",
              args |-> [api_key |-> a, model |-> m],
              environ |-> e, dotenv |-> d,
              api_key |-> None, model |-> None, client |-> NoClient, raised |-> None,
              method |-> None, input |-> None, backend |-> BackendNoChoices,
              raw_response |-> NoContent, result |-> XtrNone] :
             a \in ApiKeyArgs, m \in ModelArgs, e \in Environs, d \in DotenvFiles}

\* load_dotenv(): a variable the environment lacks is taken from the file
load_dotenv(environ, dotenv) == IF environ = None THEN dotenv ELSE environ

\* Mutant of ResolveApiKey: the environment is preferred to the argument.
ResolveApiKey_EnvironFirst(api_key, environ) ==
    IF ~Falsy(environ) THEN environ ELSE api_key

\* api_key or os.getenv("OPENAI_API_KEY")
ResolveApiKey(api_key, environ) ==
    IF ~Falsy(api_key) THEN api_key ELSE environ

\* InformationExtractor.__init__
XtrConstruct ==
    /\ xtr.pc = "new"
    /\ LET environ == load_dotenv(xtr.environ, xtr.dotenv)
           api_key == ResolveApiKey(xtr.args.api_key, environ)
       IN IF Falsy(api_key)
          THEN xtr' = [xtr EXCEPT !.pc = "failed", !.environ = environ,
                                  !.raised = "ValueError"]
          ELSE xtr' = [xtr EXCEPT
                         !.pc = "ready", !.environ = environ,
                         !.api_key = api_key,
                         !.model = IF xtr.args.model = Omitted THEN DefaultModel
                                   ELSE xtr.args.model,
                         !.client = OpenAI(api_key)]
    /\ UNCHANGED otherThanExtractor

\* except Exception as e: return ExtractionResult(success=False, error=str(e))
OuterExcept(message) == XtrReturned(ExtractionResult(FALSE, NoData, message, NoContent))

\* A call of extract or extract_with_schema begins; the backend's behaviour
\* during this call is the environment's choice
XtrCall(method, input, backend) ==
    /\ xtr.pc = "ready"
    /\ xtr' = [xtr EXCEPT !.pc = "prompt", !.method = method, !.input = input,
                          !.backend = backend, !.raw_response = NoContent,
                          !.result = XtrNone]
    /\ UNCHANGED otherThanExtractor

\* _build_prompt / _build_schema_prompt: a field that is no string, or a
\* schema that is no mapping, fails inside the try
XtrBuildPrompt ==
    /\ xtr.pc = "prompt"
    /\ IF xtr.input = "ok"
       THEN xtr' = [xtr EXCEPT !.pc = "create"]
       ELSE xtr' = [xtr EXCEPT
                      !.pc = "ready",
                      !.result =
                         OuterExcept(IF xtr.method = "extract"
                                     THEN "sequence item 0: expected str instance, int found"
                                     ELSE "'NoneType' object has no attribute 'items'")]
    /\ UNCHANGED otherThanExtractor

\* self.client.chat.completions.create(...) and response.choices[0].message.content
XtrCreate ==
    /\ xtr.pc = "create"
    /\ IF xtr.backend.kind = "raises"
       THEN xtr' = [xtr EXCEPT !.pc = "ready", !.result = OuterExcept(xtr.backend.message)]
       ELSE IF xtr.backend.kind = "no_choices"
       THEN xtr' = [xtr EXCEPT !.pc = "ready",
                               !.result = OuterExcept("list index out of range")]
       ELSE xtr' = [xtr EXCEPT !.pc = "parse", !.raw_response = xtr.backend.content]
    /\ UNCHANGED otherThanExtractor

\* The parse of the reply and the result built from it
XtrParse ==
    /\ xtr.pc = "parse"
    /\ LET raw_response == xtr.raw_response
           data == _parse_json_response(raw_response)
       IN xtr' = [xtr EXCEPT
                    !.pc = "ready",
                    !.result =
                       IF data.status = "raised" /\ data.exc = "JSONDecodeError"
                       THEN XtrReturned(ExtractionResult(FALSE, NoData,
                                "Failed to parse JSON from LLM response", raw_response))
                       ELSE IF data.status = "raised"
                       THEN OuterExcept("the JSON object must be str, bytes or bytearray, not NoneType")
                       ELSE IF data.v.t # "dict"
                       THEN OuterExcept("1 validation error for ExtractionResult")
                       ELSE XtrReturned(ExtractionResult(TRUE, data.v, None, raw_response))]
    /\ UNCHANGED otherThanExtractor

XtrCallSome ==
    \E method \in {"extract", "extract_with_schema"}, input \in {"ok", "bad"},
       backend \in Backends : XtrCall(method, input, backend)

ExtractorNext == XtrConstruct \/ XtrCallSome \/ XtrBuildPrompt \/ XtrCreate \/ XtrParse

ExtractorSpecInit ==
    /\ ExtractorInit /\ EarlierIdle /\ BedrockIdle /\ FormatIdle /\ RegistryIdle

ExtractorSpec == ExtractorSpecInit /\ [][ExtractorNext]_vars

(***************************************************************************)
(* Claims about Part 10                                                    *)
(***************************************************************************)
Constructed == xtr.pc \in {"ready", "prompt", "create", "parse"}
ConstructionFailed ==
    /\ xtr.pc = "failed"
    /\ xtr.raised = "ValueError"
    /\ xtr.api_key = None /\ xtr.model = None /\ xtr.client = NoClient
ConstructedWith(api_key) ==
    /\ Constructed
    /\ xtr.raised = None
    /\ xtr.api_key = api_key
    /\ xtr.client = OpenAI(api_key)
    /\ xtr.model = IF xtr.args.model = Omitted THEN DefaultModel ELSE xtr.args.model

\* C24 as stated: the key is the api_key argument whenever one is passed
\* (None meaning not passed), otherwise the OPENAI_API_KEY variable whenever
\* it is in the environment; with neither, construction raises ValueError
\* and leaves no extractor and no client; the model is gpt-3.5-turbo unless
\* one is supplied.
C24_KeyFromArgumentElseEnvironment ==
    xtr.pc \notin {"idle", "new"} =>
        /\ xtr.args.api_key # None => ConstructedWith(xtr.args.api_key)
        /\ (xtr.args.api_key = None /\ xtr.environ # None) => ConstructedWith(xtr.environ)
        /\ (xtr.args.api_key = None /\ xtr.environ = None) => ConstructionFailed

\* C24, amended: the key is the api_key argument when it is a non-empty
\* string, otherwise the OPENAI_API_KEY variable when that is a non-empty
\* string; when both are absent or empty, construction raises ValueError
\* and leaves no extractor and no client; the model is gpt-3.5-turbo unless
\* one is supplied.
C24_KeyFromNonEmptyArgumentElseEnvironment ==
    xtr.pc \notin {"idle", "new"} =>
        /\ ~Falsy(xtr.args.api_key) => ConstructedWith(xtr.args.api_key)
        /\ (Falsy(xtr.args.api_key) /\ ~Falsy(xtr.environ)) => ConstructedWith(xtr.environ)
        /\ (Falsy(xtr.args.api_key) /\ Falsy(xtr.environ)) => ConstructionFailed

\* An extractor was constructed with an empty api_key argument and took the
\* key of the environment and the default model.
C24_Witness ==
    /\ xtr.pc = "ready"
    /\ xtr.method = None
    /\ xtr.args = [api_key |-> "", model |-> Omitted]
    /\ xtr.environ = "env-test-key"
    /\ xtr.api_key = "env-test-key"
    /\ xtr.client = OpenAI("env-test-key")
    /\ xtr.model = DefaultModel

\* The replies by what they are
JsonObjectReplies == {R_object}
OtherJsonReplies == {R_list, R_number, R_null}
\* a JSON object between a fence that opens the first fenced block of the
\* reply, bare or tagged json, and the fence that closes it
FirstFenceReplies == {R_fenced_json, R_fenced_plain, R_prose_fenced}
\* a JSON object between fences under another tag, or in a second block
OtherFenceReplies == {R_fenced_JSON, R_second_fence}
NeitherReplies == {R_not_json, R_empty, R_object_prose, R_fenced_invalid, R_fenced_list}

\* The object each reply holds, keys and values as code points
ReplyObject(r) ==
    CASE r = R_object ->
            JDict(<<<<<<110, 97, 109, 101>>, JStr(<<74, 111>>)>>,
                    <<<<97, 103, 101>>, JInt(30)>>>>)
      [] r = R_fenced_json -> JDict(<<<<<<110, 97, 109, 101>>, JStr(<<74, 111>>)>>>>)
      [] r = R_fenced_plain -> JDict(<<<<<<97>>, JDict(<<<<<<98>>, JNull>>>>)>>>>)
      [] r \in {R_prose_fenced, R_fenced_JSON, R_second_fence} ->
            JDict(<<<<<<97>>, JInt(1)>>>>)

CallFinished == xtr.pc = "ready" /\ xtr.method # None
Replied(rs) ==
    /\ xtr.input = "ok"
    /\ xtr.backend.kind = "replies"
    /\ xtr.backend.content.t = "str"
    /\ xtr.backend.content.v \in rs
Succeeded ==
    /\ xtr.result.value.success
    /\ xtr.result.value.data = ReplyObject(xtr.backend.content.v)
FailedWith(message) ==
    /\ ~xtr.result.value.success
    /\ xtr.result.value.error = message

\* What C23 says of every finished call: it returned an ExtractionResult;
\* a success has no error and holds the object of the reply; a failure has
\* an error and empty data; a backend exception gives a failure with the
\* exception's message.
ExtractionOutcome ==
    /\ xtr.result.status = "returned"
    /\ xtr.result.value.success =>
          /\ xtr.result.value.error = None
          /\ Replied(JsonObjectReplies \cup FirstFenceReplies \cup OtherFenceReplies)
          /\ Succeeded
    /\ ~xtr.result.value.success =>
          /\ xtr.result.value.error # None
          /\ xtr.result.value.data = NoData
    /\ (xtr.input = "ok" /\ xtr.backend.kind = "raises") =>
          FailedWith(xtr.backend.message)

PredefinedNames ==
    {"Resumo", "Extrair Informacoes Principais", "Analise de Dados",
     "Perguntas e Respostas", "Estrutura do Documento", "Extrair Entidades",
     "Analise de Sentimento", "Extrair Acoes e Tarefas", "Comparacao e Contraste",
     "Resumo Executivo"}

\* Each predefined template is its instructions, here a token that holds the
\* name, followed by the placeholder
PREDEFINED_PROMPTS == [n \in PredefinedNames |-> <<n, "{", "content", "}">>]

\* The names and templates the calls are made with
RegNames == {"Resumo", "Meu Prompt", "Outro", "Inexistente"}
AddNames == {"Resumo", "Meu Prompt", "Outro"}
RegTemplates ==
    {<<"{", "content", "}">>, <<"a", "{", "content", "}">>, <<"{", "content", "}", "a">>,
     <<"{", "{", "content", "}", "}">>,
     <<>>, <<"a">>, <<"content">>, <<"{", "content">>, <<"{", "a", "}">>,
     <<"content", "}", "{">>, <<"{", "content", "a", "}">>}

RegNone == [status |-> "none", exc |-> None, value |-> <<>>]
RegReturned(value) == [status |-> "returned", exc |-> None, value |-> value]
RegRaised(exc) == [status |-> "raised", exc |-> exc, value |-> <<>>]
RegCall(method, name, tmpl) == [op |-> method, name |-> name, template |-> tmpl]

\* The class as the module is imported; before is the registry as the last
\* call found it
RegistryInit ==
    reg = [pc |-> "imported", PREDEFINED_PROMPTS |-> PREDEFINED_PROMPTS,
           before |-> PREDEFINED_PROMPTS, call |-> RegCall("none", None, <<>>),
           result |-> RegNone]

\* cls.PREDEFINED_PROMPTS[name] = template
Store(prompts, name, tmpl) ==
    [n \in DOMAIN prompts \cup {name} |-> IF n = name THEN tmpl ELSE prompts[n]]

\* Mutant of RegAdd: the template is stored without the placeholder check.
RegAdd_Unchecked(name, tmpl) ==
    /\ reg.pc = "imported"
    /\ reg' = [reg EXCEPT !.PREDEFINED_PROMPTS = Store(reg.PREDEFINED_PROMPTS, name, tmpl),
                          !.before = reg.PREDEFINED_PROMPTS,
                          !.call = RegCall("add_custom_prompt", name, tmpl),
                          !.result = RegReturned(<<>>)]
    /\ UNCHANGED otherThanRegistry

\* PromptManager.add_custom_prompt(name, template)
RegAdd(name, tmpl) ==
    /\ reg.pc = "imported"
    /\ IF ~HasPlaceholder(tmpl)
       THEN reg' = [reg EXCEPT !.before = reg.PREDEFINED_PROMPTS,
                               !.call = RegCall("add_custom_prompt", name, tmpl),
                               !.result = RegRaised("ValueError")]
       ELSE reg' = [reg EXCEPT
                      !.PREDEFINED_PROMPTS = Store(reg.PREDEFINED_PROMPTS, name, tmpl),
                      !.before = reg.PREDEFINED_PROMPTS,
                      !.call = RegCall("add_custom_prompt", name, tmpl),
                      !.result = RegReturned(<<>>)]
    /\ UNCHANGED otherThanRegistry

\* PromptManager.get_prompt(prompt_name)
RegGet(prompt_name) ==
    /\ reg.pc = "imported"
    /\ reg' = [reg EXCEPT
                 !.before = reg.PREDEFINED_PROMPTS,
                 !.call = RegCall("get_prompt", prompt_name, <<>>),
                 !.result = IF prompt_name \notin DOMAIN reg.PREDEFINED_PROMPTS
                            THEN RegRaised("KeyError")
                            ELSE RegReturned(reg.PREDEFINED_PROMPTS[prompt_name])]
    /\ UNCHANGED otherThanRegistry

RegAddSome == \E name \in AddNames, tmpl \in RegTemplates : RegAdd(name, tmpl)
RegGetSome == \E prompt_name \in RegNames : RegGet(prompt_name)

RegistryNext == RegAddSome \/ RegGetSome

RegistrySpecInit ==
    /\ RegistryInit /\ EarlierIdle /\ BedrockIdle /\ FormatIdle /\ ExtractorIdle

RegistrySpec == RegistrySpecInit /\ [][RegistryNext]_vars

(***************************************************************************)
(* Claims about Part 11                                                    *)
(***************************************************************************)
Added == reg.call.op = "add_custom_prompt"
Got == reg.call.op = "get_prompt"

\* C30: after any sequence of add_custom_prompt calls every template of the
\* registry contains {content}; a call whose template lacks it raises
\* ValueError and leaves the registry as it was; a successful call sets the
\* given name, new or existing or predefined, to the given template and
\* leaves every other entry as it was; get_prompt raises KeyError exactly
\* for the names the registry does not hold, and otherwise returns the
\* template stored under the name.
C30_RegistryTemplatesHoldPlaceholder ==
    /\ \A n \in DOMAIN reg.PREDEFINED_PROMPTS : HasPlaceholder(reg.PREDEFINED_PROMPTS[n])
    /\ (Added /\ ~HasPlaceholder(reg.call.template)) =>
          /\ reg.result = RegRaised("ValueError")
          /\ reg.PREDEFINED_PROMPTS = reg.before
    /\ (Added /\ HasPlaceholder(reg.call.template)) =>
          /\ reg.result.status = "returned"
          /\ DOMAIN reg.PREDEFINED_PROMPTS = DOMAIN reg.before \cup {reg.call.name}
          /\ reg.PREDEFINED_PROMPTS[reg.call.name] = reg.call.template
          /\ \A n \in DOMAIN reg.before \ {reg.call.name} :
                reg.PREDEFINED_PROMPTS[n] = reg.before[n]
    /\ Got =>
          /\ reg.PREDEFINED_PROMPTS = reg.before
          /\ reg.result = RegRaised("KeyError")
                <=> reg.call.name \notin DOMAIN reg.PREDEFINED_PROMPTS
          /\ reg.call.name \in DOMAIN reg.PREDEFINED_PROMPTS =>
                reg.result = RegReturned(reg.PREDEFINED_PROMPTS[reg.call.name])

\* With a custom prompt already added, the predefined Resumo was replaced
\* by a template that holds the placeholder.
C30_Witness ==
    /\ Added
    /\ reg.call.name = "Resumo"
    /\ reg.call.template = <<"a", "{", "content", "}">>
    /\ reg.result.status = "returned"
    /\ "Meu Prompt" \in DOMAIN reg.before
    /\ reg.before["Resumo"] = PREDEFINED_PROMPTS["Resumo"]
    /\ reg.PREDEFINED_PROMPTS["Resumo"] = <<"a", "{", "content", "}">>
    /\ DOMAIN reg.PREDEFINED_PROMPTS = PredefinedNames \cup {"Meu Prompt"}

====
